---- MODULE Spec2Model ----
(***************************************************************************)
(* State-machine model of the finance analyzer's view engine.             *)
(*                                                                         *)
(* The repository holds two copies of the view state: the binary's App    *)
(* (src/main.rs, driven by run_app) and the library's App (src/ui/app.rs).*)
(* The variable build says which copy a behaviour runs; every method is   *)
(* translated from both copies and branches on build where they differ.   *)
(*                                                                         *)
(* Text is a sequence of one-character strings, Option<T> is a sequence   *)
(* of length 0 (None) or 1 (Some), Decimal amounts are integers (cents).  *)
(***************************************************************************)
EXTENDS Integers, Sequences, FiniteSets, TLC

VARIABLES
    build,                  \* "bin" (src/main.rs) or "lib" (src/ui/app.rs)
    pc,                     \* "run_app" while the event loop runs, "exited" after it
                            \* returned; "call"/"returned" around a single call
    engine,                 \* the categorization engine's arguments and results
    transactions,           \* Vec<Transaction>
    filtered_transactions,  \* Vec<usize>, 0-based indices into transactions
    current_view,           \* View
    selected_transaction,   \* Option<usize>
    category_totals,        \* HashMap<String, Decimal>
    list_state,             \* ListState: its selected() : Option<usize>
    sort_field,             \* SortField
    sort_order,             \* SortOrder
    input_mode,             \* InputMode
    input_text,             \* String
    filter,                 \* Option<String>
    category_selection      \* Option<usize> (library copy only)

vars == <<build, pc, engine, transactions, filtered_transactions, current_view,
          selected_transaction, category_totals, list_state, sort_field,
          sort_order, input_mode, input_text, filter, category_selection>>

-----------------------------------------------------------------------------
(* Bounds of the model *)

\* longest imported transaction collection
MaxTx == 2
\* longest text typed into the input buffer
MaxInputLen == 1
\* number of entries of CategoryType::all() kept in available_categories
MaxAvail == 2

-----------------------------------------------------------------------------
(* Option<T> *)

None == <<>>
Some(x) == <<x>>
is_some(o) == o # <<>>
unwrap(o) == o[1]

-----------------------------------------------------------------------------
(* Text *)

UpperCase == <<"A","B","C","D","E","F","G","H","I","J","K","L","M",
               "N","O","P","Q","R","S","T","U","V","W","X","Y","Z">>
LowerCase == <<"a","b","c","d","e","f","g","h","i","j","k","l","m",
               "n","o","p","q","r","s","t","u","v","w","x","y","z">>

\* char::to_lowercase on the ASCII letters the model uses
to_lowercase_char(c) ==
    IF \E i \in 1..Len(UpperCase) : UpperCase[i] = c
    THEN LowerCase[CHOOSE i \in 1..Len(UpperCase) : UpperCase[i] = c]
    ELSE c

\* str::to_lowercase
to_lowercase(s) ==
    IF s = <<>> THEN <<>> ELSE [i \in 1..Len(s) |-> to_lowercase_char(s[i])]

\* str::contains(&str): needle is a contiguous substring of hay
contains(hay, needle) ==
    \E i \in 0..(Len(hay) - Len(needle)) : SubSeq(hay, i + 1, i + Len(needle)) = needle

\* byte value order of the characters (space < upper case < lower case)
char_code(c) ==
    IF c = " " THEN 32
    ELSE IF \E i \in 1..Len(UpperCase) : UpperCase[i] = c
         THEN 64 + (CHOOSE i \in 1..Len(UpperCase) : UpperCase[i] = c)
         ELSE IF \E i \in 1..Len(LowerCase) : LowerCase[i] = c
              THEN 96 + (CHOOSE i \in 1..Len(LowerCase) : LowerCase[i] = c)
              ELSE 0

\* Ord for Ordering values
Less == "Less"
Equal == "Equal"
Greater == "Greater"

cmp_int(x, y) == IF x < y THEN Less ELSE IF x > y THEN Greater ELSE Equal

\* str::cmp: lexicographic on bytes, a proper prefix is smaller
cmp_str(s, t) ==
    LET n == IF Len(s) < Len(t) THEN Len(s) ELSE Len(t)
        diff == {i \in 1..n : s[i] # t[i]}
    IN  IF diff = {}
        THEN cmp_int(Len(s), Len(t))
        ELSE LET k == CHOOSE i \in diff : \A j \in diff : i <= j
             IN  cmp_int(char_code(s[k]), char_code(t[k]))

\* Option<String>::cmp: None < Some(_), Some compared by content
cmp_option_str(a, b) ==
    IF ~is_some(a) /\ ~is_some(b) THEN Equal
    ELSE IF ~is_some(a) THEN Less
    ELSE IF ~is_some(b) THEN Greater
    ELSE cmp_str(unwrap(a), unwrap(b))

\* Ordering::reverse
reverse(o) == IF o = Less THEN Greater ELSE IF o = Greater THEN Less ELSE Equal

\* the elements of a sequence
elements(s) == {s[i] : i \in 1..Len(s)}

\* a slip: an insertion that puts an element before the elements equal to it
sort_by_before_equals(s, cmp) ==
    LET insert(acc, x) ==
            LET lt == {i \in 1..Len(acc) : cmp[<<acc[i], x>>] = Less}
                k == IF lt = {} THEN 0 ELSE CHOOSE i \in lt : \A j \in lt : j <= i
            IN  SubSeq(acc, 1, k) \o <<x>> \o SubSeq(acc, k + 1, Len(acc))
        RECURSIVE run(_, _)
        run(acc, i) == IF i > Len(s) THEN acc ELSE run(insert(acc, s[i]), i + 1)
    IN  run(<<>>, 1)

\* slice::sort_by: a stable sort; insertion from the right keeps equal
\* elements in their input order.  The comparator closure is the function
\* cmp on pairs of elements
sort_by(s, cmp) ==
    LET insert(acc, x) ==
            LET le == {i \in 1..Len(acc) : cmp[<<acc[i], x>>] # Greater}
                k == IF le = {} THEN 0 ELSE CHOOSE i \in le : \A j \in le : j <= i
            IN  SubSeq(acc, 1, k) \o <<x>> \o SubSeq(acc, k + 1, Len(acc))
        RECURSIVE run(_, _)
        run(acc, i) == IF i > Len(s) THEN acc ELSE run(insert(acc, s[i]), i + 1)
    IN  run(<<>>, 1)

-----------------------------------------------------------------------------
(* Categories and rules *)

\* CategoryType::as_str of the entries of CategoryType::all(), in its order
CategoryType_all ==
    << <<"G","r","o","c","e","r","i","e","s">>,
       <<"U","t","i","l","i","t","i","e","s">>,
       <<"T","r","a","n","s","p","o","r","t","a","t","i","o","n">>,
       <<"C","h","i","l","d","c","a","r","e">>,
       <<"E","n","t","e","r","t","a","i","n","m","e","n","t">>,
       <<"G","o","v","e","r","n","m","e","n","t">>,
       <<"I","n","t","e","r","n","a","l"," ","T","r","a","n","s","f","e","r">>,
       <<"S","h","o","p","p","i","n","g">>,
       <<"D","i","n","i","n","g">>,
       <<"H","e","a","l","t","h","c","a","r","e">>,
       <<"E","d","u","c","a","t","i","o","n">>,
       <<"T","r","a","v","e","l">>,
       <<"U","n","c","a","t","e","g","o","r","i","z","e","d">> >>

\* Category::new(name, patterns): every rule names its owner
Category_new(name, patterns) ==
    [name |-> name,
     rules |-> [i \in 1..Len(patterns) |->
                 [pattern |-> patterns[i][1], category |-> name, priority |-> patterns[i][2]]]]

\* the category table App::new builds, keyed by name (a HashMap)
default_category_list ==
    <<
    Category_new(<<"G","r","o","c","e","r","i","e","s">>,
        << << <<"A","l","b","e","r","t"," ","H","e","i","j","n">>, 1 >>,
           << <<"P","i","c","n","i","c">>, 1 >>,
           << <<"C","r","i","s","p">>, 1 >>,
           << <<"W","I","L","L","Y","S">>, 1 >>,
           << <<"F","l","i","n","k">>, 1 >> >>),
    Category_new(<<"U","t","i","l","i","t","i","e","s">>,
        << << <<"E","S","S","E","N","T">>, 1 >>,
           << <<"A","N","W","B"," ","E","n","e","r","g","i","e">>, 1 >>,
           << <<"W","a","t","e","r","n","e","t">>, 1 >>,
           << <<"K","P","N">>, 1 >> >>),
    Category_new(<<"T","r","a","n","s","p","o","r","t","a","t","i","o","n">>,
        << << <<"U","b","e","r">>, 1 >>,
           << <<"T","L","S"," ","B","V"," ","i","n","z","."," ","O","V","-","C","h","i","p","k","a","a","r","t">>, 1 >> >>),
    Category_new(<<"C","h","i","l","d","c","a","r","e">>,
        << << <<"K","I","N","D","E","R","G","A","R","D","E","N">>, 1 >>,
           << <<"B","a","b","y","s","i","t","t","i","n","g">>, 1 >> >>),
    Category_new(<<"E","n","t","e","r","t","a","i","n","m","e","n","t">>,
        << << <<"S","W","E","S","H","O","P">>, 1 >>,
           << <<"E","s","p","r","e","s","s","o"," ","H","o","u","s","e">>, 1 >>,
           << <<"B","a","b","b","e","l">>, 1 >>,
           << <<"h","u","n","k","e","m","o","l","l","e","r">>, 1 >> >>),
    Category_new(<<"G","o","v","e","r","n","m","e","n","t">>,
        << << <<"B","E","L","A","S","T","I","N","G","D","I","E","N","S","T">>, 1 >>,
           << <<"G","e","m","e","e","n","t","e"," ","A","m","s","t","e","r","d","a","m">>, 1 >> >>),
    Category_new(<<"I","n","t","e","r","n","a","l"," ","T","r","a","n","s","f","e","r">>,
        << << <<"O","r","a","n","j","e"," ","S","p","a","a","r","r","e","k","e","n","i","n","g">>, 1 >>,
           << <<"H","r"," ","M","A"," ","C","h","u","s","o","v","l","y","a","n","o","v">>, 1 >>,
           << <<"M","w"," ","T","I"," ","C","h","u","s","o","v","l","y","a","n","o","v","a">>, 1 >> >>)
    >>

\* HashMap<String, Category>: the table keyed by name
default_categories ==
    [n \in {default_category_list[i].name : i \in 1..Len(default_category_list)} |->
        LET i == CHOOSE j \in 1..Len(default_category_list) : default_category_list[j].name = n
        IN  default_category_list[i]]

\* App.available_categories: CategoryType::all(), cut to its first MaxAvail entries
available_categories == SubSeq(CategoryType_all, 1, MaxAvail)

\* all sequences that list every element of the finite set S once
Orderings(S) ==
    {p \in [1..Cardinality(S) -> S] : \A i, j \in 1..Cardinality(S) : i # j => p[i] # p[j]}

\* categories.values().flat_map(|c| c.rules.iter()): the rules of the map's
\* categories, in the iteration order `order` of the HashMap (a sequence of its keys)
flat_rules(categories, order) ==
    LET RECURSIVE cat(_)
        cat(i) == IF i > Len(order) THEN <<>> ELSE categories[order[i]].rules \o cat(i + 1)
    IN  cat(1)

\* a slip: the comparator's operands the other way round, priority ascending
cmp_priority_asc(a, b) == cmp_int(a.priority, b.priority)

\* the comparator of all_rules.sort_by: priority, descending
cmp_priority_desc(a, b) == cmp_int(b.priority, a.priority)

\* all_rules after collect() and sort_by
sorted_rules(categories, order) ==
    LET all_rules == flat_rules(categories, order)
    IN  sort_by(all_rules,
                [p \in elements(all_rules) \X elements(all_rules) |->
                    cmp_priority_desc(p[1], p[2])])

\* a slip: the pattern is looked for in the merchant text only
rule_matches_merchant_only(rule, merchant, description) ==
    contains(to_lowercase(merchant), to_lowercase(rule.pattern))

\* the test of the scan loop: the lower-cased pattern occurs in either field
rule_matches(rule, merchant, description) ==
    LET pattern_lower == to_lowercase(rule.pattern)
    IN  \/ contains(to_lowercase(merchant), pattern_lower)
        \/ contains(to_lowercase(description), pattern_lower)

\* the scan loop: the category of the first matching rule, else None
first_match(all_rules, merchant, description) ==
    LET hits == {i \in 1..Len(all_rules) : rule_matches(all_rules[i], merchant, description)}
    IN  IF hits = {} THEN None
        ELSE Some(all_rules[CHOOSE i \in hits : \A j \in hits : i <= j].category)

\* Category::categorize_transaction, for a HashMap iterated in `order`
categorize_transaction(categories, order, merchant, description) ==
    first_match(sorted_rules(categories, order), merchant, description)

-----------------------------------------------------------------------------
(* Category totals *)

EmptyMap == [k \in {} |-> 0]

Uncategorized == <<"U","n","c","a","t","e","g","o","r","i","z","e","d">>

\* category.as_deref().unwrap_or("Uncategorized")
category_key(t) == IF is_some(t.category) THEN unwrap(t.category) ELSE Uncategorized

\* a slip: the entry is overwritten with the amount instead of increased by it
add_to_entry_overwrite(totals, key, amount) ==
    [k \in DOMAIN totals \cup {key} |-> IF k = key THEN amount ELSE totals[k]]

\* *totals.entry(category).or_insert(Decimal::ZERO) += transaction.amount
add_to_entry(totals, key, amount) ==
    IF key \in DOMAIN totals
    THEN [totals EXCEPT ![key] = @ + amount]
    ELSE [k \in DOMAIN totals \cup {key} |-> IF k = key THEN 0 + amount ELSE totals[k]]

\* the map update_category_totals builds from a transaction collection
compute_totals(txs) ==
    LET RECURSIVE loop(_, _)
        loop(totals, i) ==
            IF i > Len(txs) THEN totals
            ELSE loop(add_to_entry(totals, category_key(txs[i]), txs[i].amount), i + 1)
    IN  loop(EmptyMap, 1)

-----------------------------------------------------------------------------
(* Import *)

\* the decimal digits
Digits == <<"0","1","2","3","4","5","6","7","8","9">>

is_digit(c) == \E i \in 1..10 : Digits[i] = c

digit_value(c) == (CHOOSE i \in 1..10 : Digits[i] = c) - 1

\* the number a text of digits denotes
RECURSIVE digits_value(_)
digits_value(s) ==
    IF s = <<>> THEN 0
    ELSE 10 * digits_value(SubSeq(s, 1, Len(s) - 1)) + digit_value(s[Len(s)])

\* str::trim_matches(ch): the text without its leading and trailing ch
trim_matches(s, ch) ==
    LET keep == {i \in 1..Len(s) : s[i] # ch}
    IN  IF keep = {} THEN <<>>
        ELSE SubSeq(s, CHOOSE i \in keep : \A j \in keep : i <= j,
                       CHOOSE i \in keep : \A j \in keep : j <= i)

\* str::trim: the text without leading and trailing blanks
trim(s) == trim_matches(s, " ")

\* str::replace(from, to) for single characters
replace(s, from, to) ==
    IF s = <<>> THEN <<>> ELSE [i \in 1..Len(s) |-> IF s[i] = from THEN to ELSE s[i]]

\* the text after the sign is digits with at most one point and at least
\* one digit
well_formed_decimal(body) ==
    /\ \A i \in 1..Len(body) : is_digit(body[i]) \/ body[i] = "."
    /\ Cardinality({i \in 1..Len(body) : body[i] = "."}) <= 1
    /\ \E i \in 1..Len(body) : body[i] # "."

\* the position of the point, past the end if there is none
point_position(body) ==
    IF \E i \in 1..Len(body) : body[i] = "."
    THEN CHOOSE i \in 1..Len(body) : body[i] = "."
    ELSE Len(body) + 1

\* the cents of the digits before and after the point
decimal_cents(body, point) ==
    100 * digits_value(SubSeq(body, 1, point - 1))
        + digits_value(SubSeq(SubSeq(body, point + 1, Len(body)) \o <<"0", "0">>, 1, 2))

\* the decimal with the sign taken off
signed_decimal(negative, body) ==
    IF ~well_formed_decimal(body) THEN None
    ELSE Some((IF negative THEN 0 - 1 ELSE 1) * decimal_cents(body, point_position(body)))

\* Decimal::from_str, the value in cents: an optional sign, then digits with
\* at most one point and at least one digit; anything else is an error (None).
\* The texts read have no more than two digits after the point
Decimal_from_str(s) ==
    IF s # <<>> /\ s[1] \in {"-", "+"}
    THEN signed_decimal(s[1] = "-", Tail(s))
    ELSE signed_decimal(FALSE, s)

\* the sign parse_amount gives the parsed Decimal: a "Debit" marker negates it
negate_debit(decimal, debit_credit) ==
    IF ~is_some(decimal) THEN None
    ELSE IF debit_credit = <<"D","e","b","i","t">> THEN Some(0 - unwrap(decimal))
    ELSE decimal

\* parse_amount: the comma becomes a point, the Decimal is parsed and a
\* "Debit" marker negates it; None is the Err of the `?`
parse_amount(amount, debit_credit) ==
    negate_debit(Decimal_from_str(replace(amount, ",", ".")), debit_credit)

\* the days of month m of year y
days_in_month(y, m) ==
    IF m \in {4, 6, 9, 11} THEN 30
    ELSE IF m = 2
         THEN (IF (y % 4 = 0 /\ y % 100 # 0) \/ y % 400 = 0 THEN 29 ELSE 28)
         ELSE 31

\* the number YYYYMMDD if it is a date of the calendar
calendar_date(n) ==
    IF /\ ((n \div 100) % 100) \in 1..12
       /\ (n % 100) \in 1..days_in_month(n \div 10000, (n \div 100) % 100)
    THEN Some(n)
    ELSE None

\* parse_date: NaiveDateTime::parse_from_str on the date text followed by
\* midnight, format %Y%m%d...; the date as the number YYYYMMDD, None for the
\* Err.  The texts read are eight digits or hold a character that is no digit
parse_date(date) ==
    IF Len(date) # 8 \/ \E i \in 1..Len(date) : ~is_digit(date[i]) THEN None
    ELSE calendar_date(digits_value(date))

\* the number of columns of the bank's export, the fields of RawTransaction
ExportColumns == 11

\* a record of the file: whether the reader can decode it, the number of its
\* fields, and the text of the fields the importers use (columns 0, 1, 5, 6, 8)
Record(date, merchant, marker, amount, description) ==
    [readable |-> TRUE, fields |-> ExportColumns, date |-> date, merchant |-> merchant,
     marker |-> marker, amount |-> amount, description |-> description]

\* the well-formed rows of the transaction files the model imports
Rows ==
    { Record(<<"2","0","2","4","0","1","0","2">>, <<"U","b","e","r">>, <<"D","e","b","i","t">>,
             <<"1","2",",","5","0">>, <<>>),
      Record(<<"2","0","2","4","0","1","0","1">>, <<"T","a","x","i">>, <<"C","r","e","d","i","t">>,
             <<"1","0","0","0",".","0","0">>, <<>>),
      Record(<<"2","0","2","4","0","1","0","1">>, <<"S","h","o","p">>, <<"D","e","b","i","t">>,
             <<"1","2",",","5","0">>, <<"f","l","i","n","k">>) }

\* the files: every sequence of at most MaxTx rows
Files == UNION {[1..n -> Rows] : n \in 0..MaxTx}

\* the library copy's loop body on record r, whose date and amount parse to
\* `date` and `amount`: a reader that is not flexible, then columns by index
lib_record_step(width, r, date, amount) ==
    IF ~r.readable \/ r.fields # width THEN [step |-> "Err"]
    ELSE IF r.fields < 7 THEN [step |-> "skip"]
    ELSE IF ~is_some(date) THEN [step |-> "Err"]
    ELSE IF r.fields <= 8 THEN [step |-> "panic"]
    ELSE IF ~is_some(amount) THEN [step |-> "Err"]
    ELSE [step |-> "push", date |-> unwrap(date), amount |-> unwrap(amount),
          merchant |-> trim_matches(r.merchant, "\""),
          description |-> trim_matches(r.description, "\"")]

\* the binary's loop body on record r: a flexible reader, then columns by
\* header name
bin_record_step(width, r, date, amount) ==
    IF ~r.readable \/ r.fields < ExportColumns \/ width < ExportColumns
    THEN [step |-> "skip"]
    ELSE IF ~is_some(date) THEN [step |-> "Err"]
    ELSE IF ~is_some(amount) THEN [step |-> "Err"]
    ELSE [step |-> "push", date |-> unwrap(date), amount |-> unwrap(amount),
          merchant |-> r.merchant, description |-> r.description]

\* what the loop body of the importer does with record r of a file whose
\* header has `width` fields: "push" a transaction, "skip" the record, return
\* "Err", or "panic"
record_step(b, width, r) ==
    IF b = "lib"
    THEN lib_record_step(width, r, parse_date(trim_matches(r.date, "\"")),
                         parse_amount(trim_matches(r.amount, "\""),
                                      trim_matches(r.marker, "\"")))
    ELSE bin_record_step(width, r, parse_date(r.date),
                         parse_amount(trim(r.amount), r.marker))

\* a slip: the library copy's counter is never advanced
transaction_id_fixed_counter(b, id_counter, index) == IF b = "lib" THEN 1 ELSE index

\* the id of the transaction pushed for the record at `index` (from 0): the
\* library copy's id_counter, the binary's `index as u64`
transaction_id(b, id_counter, index) == IF b = "lib" THEN id_counter ELSE index

\* the loop of the importer from record i on, with the transactions pushed
\* so far
RECURSIVE import_from(_, _, _, _, _)

\* the importer after the loop body did s with record i
import_step(b, file, i, id_counter, acc, s) ==
    CASE s.step = "skip" -> import_from(b, file, i + 1, id_counter, acc)
      [] s.step = "push" ->
            import_from(b, file, i + 1, id_counter + 1,
                        Append(acc, [id |-> transaction_id(b, id_counter, i - 1),
                                     date |-> s.date,
                                     amount |-> s.amount,
                                     merchant |-> s.merchant,
                                     description |-> s.description,
                                     category |-> None]))
      [] OTHER -> [outcome |-> s.step, transactions |-> <<>>]

import_from(b, file, i, id_counter, acc) ==
    IF i > Len(file.rows) THEN [outcome |-> "Ok", transactions |-> acc]
    ELSE import_step(b, file, i, id_counter, acc, record_step(b, file.width, file.rows[i]))

\* read_transactions_from_csv on the file [width, rows]: the library copy
\* numbers the transactions it pushes from 1, the binary's copy gives each
\* the index of its record, from 0
read_transactions_from_csv(b, file) == import_from(b, file, 1, 1, <<>>)

\* the transactions the rows of Rows are imported as
ImportedRows ==
    UNION {elements(read_transactions_from_csv("lib", [width |-> ExportColumns,
                                                        rows |-> <<r>>]).transactions) :
              r \in Rows}

\* the iteration orders of the category HashMap that the model tries: the
\* first three categories of the table in every order, followed by the others
HashOrders ==
    LET first == {default_category_list[i].name : i \in 1..3}
        rest == [i \in 1..(Len(default_category_list) - 3) |-> default_category_list[i + 3].name]
    IN  {p \o rest : p \in Orderings(first)}

-----------------------------------------------------------------------------
(* The App methods, as functions from an App value to the App value after
   the call.  Indices are 0-based as in the source; sequence positions are
   the index plus one. *)

\* the App value of the current state
App ==
    [transactions |-> transactions,
     filtered_transactions |-> filtered_transactions,
     current_view |-> current_view,
     selected_transaction |-> selected_transaction,
     category_totals |-> category_totals,
     list_state |-> list_state,
     sort_field |-> sort_field,
     sort_order |-> sort_order,
     input_mode |-> input_mode,
     input_text |-> input_text,
     filter |-> filter,
     category_selection |-> category_selection]

\* usize::saturating_sub
saturating_sub(x, y) == IF x >= y THEN x - y ELSE 0

\* App::categorize_all_transactions, the HashMap iterated in `order`
categorize_all_transactions(b, a, order) ==
    LET all_rules == sorted_rules(default_categories, order)
        new_category(t) ==
            IF b = "lib"
            THEN categorize_transaction(default_categories, order, t.merchant, t.description)
            ELSE LET m == first_match(all_rules, t.merchant, t.description)
                 IN  IF is_some(m) THEN m ELSE t.category
    IN  [a EXCEPT !.transactions =
            IF a.transactions = <<>> THEN <<>>
            ELSE [i \in 1..Len(a.transactions) |->
                    [a.transactions[i] EXCEPT !.category = new_category(a.transactions[i])]]]

\* App::update_category_totals
update_category_totals(a) ==
    [a EXCEPT !.category_totals = compute_totals(a.transactions)]

\* App::new
App_new(b, rows, order) ==
    LET txs == read_transactions_from_csv(b, [width |-> ExportColumns, rows |-> rows]).transactions
        app == [transactions |-> txs,
                filtered_transactions |-> <<>>,
                current_view |-> "TransactionList",
                selected_transaction |-> None,
                category_totals |-> EmptyMap,
                list_state |-> IF txs # <<>> THEN Some(0) ELSE None,
                sort_field |-> "Date",
                sort_order |-> "Descending",
                input_mode |-> "Normal",
                input_text |-> <<>>,
                filter |-> None,
                category_selection |-> None]
    IN  update_category_totals(categorize_all_transactions(b, app, order))

\* the index App::next selects
next_index(a) ==
    IF is_some(a.list_state)
    THEN IF unwrap(a.list_state) >= saturating_sub(Len(a.transactions), 1)
         THEN 0
         ELSE unwrap(a.list_state) + 1
    ELSE 0

\* App::next
next(a) ==
    [a EXCEPT !.list_state = Some(next_index(a)),
              !.selected_transaction = Some(next_index(a))]

\* the index App::previous selects
previous_index(a) ==
    IF is_some(a.list_state)
    THEN IF unwrap(a.list_state) = 0
         THEN saturating_sub(Len(a.transactions), 1)
         ELSE unwrap(a.list_state) - 1
    ELSE 0

\* App::previous
previous(a) ==
    [a EXCEPT !.list_state = Some(previous_index(a)),
              !.selected_transaction = Some(previous_index(a))]

\* a slip: the order is not looked at
compare_transactions_ascending(ta, tb, field, order) ==
    CASE field = "Date" -> cmp_int(ta.date, tb.date)
      [] field = "Amount" -> cmp_int(ta.amount, tb.amount)
      [] field = "Merchant" -> cmp_str(ta.merchant, tb.merchant)
      [] field = "Category" -> cmp_option_str(ta.category, tb.category)

\* compare_transactions
compare_transactions(ta, tb, field, order) ==
    LET ordering ==
            CASE field = "Date" -> cmp_int(ta.date, tb.date)
              [] field = "Amount" -> cmp_int(ta.amount, tb.amount)
              [] field = "Merchant" -> cmp_str(ta.merchant, tb.merchant)
              [] field = "Category" -> cmp_option_str(ta.category, tb.category)
    IN  IF order = "Ascending" THEN ordering ELSE reverse(ordering)

\* App::sort_transactions
sort_transactions(a) ==
    IF a.filtered_transactions # <<>>
    THEN [a EXCEPT !.filtered_transactions =
            sort_by(a.filtered_transactions,
                    [p \in elements(a.filtered_transactions) \X elements(a.filtered_transactions) |->
                        compare_transactions(a.transactions[p[1] + 1], a.transactions[p[2] + 1],
                                             a.sort_field, a.sort_order)])]
    ELSE [a EXCEPT !.transactions =
            sort_by(a.transactions,
                    [p \in elements(a.transactions) \X elements(a.transactions) |->
                        compare_transactions(p[1], p[2], a.sort_field, a.sort_order)])]

\* App::toggle_sort_order
toggle_sort_order(a) ==
    sort_transactions(
        [a EXCEPT !.sort_order = IF a.sort_order = "Ascending" THEN "Descending"
                                 ELSE "Ascending"])

\* App::handle_input
handle_input(a, c) ==
    IF a.input_mode \in {"Filtering", "Categorizing"}
    THEN [a EXCEPT !.input_text = Append(a.input_text, c)]
    ELSE a

\* App::handle_backspace
handle_backspace(a) ==
    IF a.input_mode \in {"Filtering", "Categorizing"}
    THEN [a EXCEPT !.input_text =
            IF a.input_text = <<>> THEN <<>> ELSE SubSeq(a.input_text, 1, Len(a.input_text) - 1)]
    ELSE a

\* the closure of apply_filter: merchant, description or category contains the filter
matches_filter(t, f) ==
    \/ contains(to_lowercase(t.merchant), f)
    \/ contains(to_lowercase(t.description), f)
    \/ (is_some(t.category) /\ contains(to_lowercase(unwrap(t.category)), f))

\* a slip: the positions counted from 1
matching_indices_from_one(txs, f) ==
    LET RECURSIVE collect(_)
        collect(i) ==
            IF i > Len(txs) THEN <<>>
            ELSE (IF matches_filter(txs[i], f) THEN <<i>> ELSE <<>>) \o collect(i + 1)
    IN  collect(1)

\* the 0-based indices, in increasing order, of the transactions that match f
matching_indices(txs, f) ==
    LET RECURSIVE collect(_)
        collect(i) ==
            IF i > Len(txs) THEN <<>>
            ELSE (IF matches_filter(txs[i], f) THEN <<i - 1>> ELSE <<>>) \o collect(i + 1)
    IN  collect(1)

\* a slip: the highlighted row is left where it was
apply_filter_keep_cursor(a, text) ==
    [a EXCEPT !.filter = Some(to_lowercase(text)),
              !.filtered_transactions = matching_indices(a.transactions, to_lowercase(text))]

\* App::apply_filter
apply_filter(a, text) ==
    LET f == to_lowercase(text)
        matched == matching_indices(a.transactions, f)
    IN  [a EXCEPT !.filter = Some(f),
                  !.filtered_transactions = matched,
                  !.list_state = IF matched # <<>> THEN Some(0) ELSE a.list_state]

\* App::clear_filter
clear_filter(a) ==
    [a EXCEPT !.filter = None,
              !.filtered_transactions = <<>>,
              !.list_state = IF a.transactions # <<>> THEN Some(0) ELSE a.list_state]

\* a slip: the name is written to the description of the transaction
submit_categorizing_to_description(b, a) ==
    LET name == IF b = "lib"
                THEN IF /\ is_some(a.category_selection)
                        /\ unwrap(a.category_selection) < Len(available_categories)
                     THEN available_categories[unwrap(a.category_selection) + 1]
                     ELSE <<>>
                ELSE a.input_text
        done == IF /\ is_some(a.selected_transaction)
                   /\ unwrap(a.selected_transaction) < Len(a.transactions)
                   /\ name # <<>>
                THEN [a EXCEPT !.transactions[unwrap(a.selected_transaction) + 1].description = name]
                ELSE a
    IN  IF b = "lib" THEN [done EXCEPT !.category_selection = None] ELSE done

\* the Categorizing arm of submit_input
submit_categorizing(b, a) ==
    IF b = "lib"
    THEN LET hit == /\ is_some(a.selected_transaction)
                    /\ unwrap(a.selected_transaction) < Len(a.transactions)
                    /\ is_some(a.category_selection)
                    /\ unwrap(a.category_selection) < Len(available_categories)
             done == IF hit
                     THEN update_category_totals(
                            [a EXCEPT !.transactions[unwrap(a.selected_transaction) + 1].category =
                                Some(available_categories[unwrap(a.category_selection) + 1])])
                     ELSE a
         IN  [done EXCEPT !.category_selection = None]
    ELSE IF /\ is_some(a.selected_transaction)
            /\ unwrap(a.selected_transaction) < Len(a.transactions)
            /\ a.input_text # <<>>
         THEN [a EXCEPT !.transactions[unwrap(a.selected_transaction) + 1].category =
                            Some(a.input_text)]
         ELSE a

\* a slip: the Filtering arm without the test for an empty buffer
submit_input_always_applies(b, a) ==
    LET done ==
            CASE a.input_mode = "Filtering" -> apply_filter(a, a.input_text)
              [] a.input_mode = "Categorizing" -> submit_categorizing(b, a)
              [] a.input_mode = "Normal" -> a
    IN  [done EXCEPT !.input_text = <<>>, !.input_mode = "Normal"]

\* App::submit_input
submit_input(b, a) ==
    LET done ==
            CASE a.input_mode = "Filtering" ->
                    IF a.input_text # <<>> THEN apply_filter(a, a.input_text)
                    ELSE clear_filter(a)
              [] a.input_mode = "Categorizing" -> submit_categorizing(b, a)
              [] a.input_mode = "Normal" -> a
    IN  [done EXCEPT !.input_text = <<>>, !.input_mode = "Normal"]

\* a slip: the highlight stops at the ends of the list
handle_category_selection_clamped(a, key) ==
    IF ~is_some(a.category_selection) THEN a
    ELSE LET current == unwrap(a.category_selection)
         IN  CASE key = "Up" ->
                    [a EXCEPT !.category_selection =
                        Some(IF current = 0 THEN 0 ELSE current - 1)]
               [] key = "Down" ->
                    [a EXCEPT !.category_selection =
                        Some(IF current >= Len(available_categories) - 1 THEN current
                             ELSE current + 1)]
               [] OTHER -> a

\* App::handle_category_selection (library copy)
handle_category_selection(a, key) ==
    IF ~is_some(a.category_selection) THEN a
    ELSE LET current == unwrap(a.category_selection)
         IN  CASE key = "Up" ->
                    [a EXCEPT !.category_selection =
                        Some(IF current = 0 THEN Len(available_categories) - 1
                             ELSE current - 1)]
               [] key = "Down" ->
                    [a EXCEPT !.category_selection =
                        Some(IF current >= Len(available_categories) - 1 THEN 0
                             ELSE current + 1)]
               [] OTHER -> a

-----------------------------------------------------------------------------
(* The state machine: App::new, then run_app's key dispatch *)

\* the value of engine while no categorization call is under study
NoCall == <<>>

\* the characters typed into the input buffer
InputChars == {"T"}

\* the state takes the fields of the App value a
Becomes(a) ==
    /\ transactions' = a.transactions
    /\ filtered_transactions' = a.filtered_transactions
    /\ current_view' = a.current_view
    /\ selected_transaction' = a.selected_transaction
    /\ category_totals' = a.category_totals
    /\ list_state' = a.list_state
    /\ sort_field' = a.sort_field
    /\ sort_order' = a.sort_order
    /\ input_mode' = a.input_mode
    /\ input_text' = a.input_text
    /\ filter' = a.filter
    /\ category_selection' = a.category_selection
    /\ UNCHANGED <<build, pc, engine>>

\* main: App::new(csv_path) on some file, then run_app
Init ==
    \E b \in {"bin", "lib"}, rows \in Files, order \in HashOrders :
        \E a \in {App_new(b, rows, order)} :
            /\ build = b
            /\ pc = "run_app"
            /\ engine = NoCall
            /\ transactions = a.transactions
            /\ filtered_transactions = a.filtered_transactions
            /\ current_view = a.current_view
            /\ selected_transaction = a.selected_transaction
            /\ category_totals = a.category_totals
            /\ list_state = a.list_state
            /\ sort_field = a.sort_field
            /\ sort_order = a.sort_order
            /\ input_mode = a.input_mode
            /\ input_text = a.input_text
            /\ filter = a.filter
            /\ category_selection = a.category_selection

\* the highlight begin_categorize_input starts with: the library copy presents
\* the enumerated list with its first entry highlighted
begin_categorize_highlight(b) == IF b = "lib" THEN Some(0) ELSE None

\* the highlight after a cancel: the library copy dismisses the enumerated
\* list, the binary's copy has no highlight
discard_highlight(b, a) ==
    IF b = "lib" THEN [a EXCEPT !.category_selection = None] ELSE a

\* a slip: the cancel also drops the stored filter and the visible index sequence
cancel_clears_filter(b, a) ==
    discard_highlight(b, clear_filter([a EXCEPT !.input_text = <<>>, !.input_mode = "Normal"]))

\* the Esc arm of the input modes: input_text.clear(), input_mode = Normal
cancel(b, a) ==
    discard_highlight(b, [a EXCEPT !.input_text = <<>>, !.input_mode = "Normal"])

\* KeyCode::Char('q') in Normal mode: run_app returns
KeyQuit ==
    /\ pc = "run_app" /\ input_mode = "Normal"
    /\ pc' = "exited"
    /\ UNCHANGED <<build, engine, transactions, filtered_transactions, current_view,
                   selected_transaction, category_totals, list_state, sort_field,
                   sort_order, input_mode, input_text, filter, category_selection>>

\* KeyCode::Tab in Normal mode
KeyTab ==
    /\ pc = "run_app" /\ input_mode = "Normal"
    /\ Becomes([App EXCEPT !.current_view =
            CASE current_view = "TransactionList" -> "CategorySummary"
              [] current_view = "CategorySummary" -> "TransactionList"
              [] current_view = "TransactionDetail" -> "TransactionList"
              [] current_view = "CategoryDetail" -> "CategorySummary"])

\* KeyCode::Char('d') in Normal mode
KeyDetail ==
    /\ pc = "run_app" /\ input_mode = "Normal"
    /\ Becomes(IF current_view = "TransactionList"
               THEN [App EXCEPT !.current_view =
                        IF current_view = "TransactionDetail" THEN "TransactionList"
                        ELSE "TransactionDetail"]
               ELSE App)

\* KeyCode::Esc in Normal mode
KeyEscNormal ==
    /\ pc = "run_app" /\ input_mode = "Normal"
    /\ Becomes(IF current_view = "TransactionDetail"
               THEN [App EXCEPT !.current_view = "TransactionList"]
               ELSE App)

\* KeyCode::Up in Normal mode
KeyUp ==
    /\ pc = "run_app" /\ input_mode = "Normal"
    /\ Becomes(previous(App))

\* KeyCode::Down in Normal mode
KeyDown ==
    /\ pc = "run_app" /\ input_mode = "Normal"
    /\ Becomes(next(App))

\* a slip: the 's' arm outside the match on input_mode
KeySort_any_mode ==
    /\ pc = "run_app"
    /\ Becomes(toggle_sort_order(App))

\* KeyCode::Char('s') in Normal mode
KeySort ==
    /\ pc = "run_app" /\ input_mode = "Normal"
    /\ Becomes(toggle_sort_order(App))

\* KeyCode::Char('f') in Normal mode
KeyFilter ==
    /\ pc = "run_app" /\ input_mode = "Normal"
    /\ Becomes([App EXCEPT !.input_mode = "Filtering"])

\* a slip: the 'c' arm outside the match on input_mode
KeyCategorize_any_mode ==
    /\ pc = "run_app"
    /\ Becomes(IF is_some(selected_transaction)
               THEN [App EXCEPT !.input_mode = "Categorizing",
                                !.category_selection = begin_categorize_highlight(build)]
               ELSE App)

\* KeyCode::Char('c') in Normal mode
KeyCategorize ==
    /\ pc = "run_app" /\ input_mode = "Normal"
    /\ Becomes(IF is_some(selected_transaction)
               THEN [App EXCEPT !.input_mode = "Categorizing",
                                !.category_selection = begin_categorize_highlight(build)]
               ELSE App)

\* KeyCode::Enter in Filtering or Categorizing mode
KeyEnter ==
    /\ pc = "run_app" /\ input_mode \in {"Filtering", "Categorizing"}
    /\ Becomes(submit_input(build, App))

\* KeyCode::Esc in Filtering or Categorizing mode
KeyEscInput ==
    /\ pc = "run_app" /\ input_mode \in {"Filtering", "Categorizing"}
    /\ Becomes(cancel(build, App))

\* KeyCode::Backspace in Filtering or Categorizing mode
KeyBackspace ==
    /\ pc = "run_app" /\ input_mode \in {"Filtering", "Categorizing"}
    /\ Becomes(handle_backspace(App))

\* KeyCode::Char(c) in Filtering or Categorizing mode
KeyChar ==
    /\ pc = "run_app" /\ input_mode \in {"Filtering", "Categorizing"}
    /\ Len(input_text) < MaxInputLen
    /\ \E c \in InputChars : Becomes(handle_input(App, c))

\* KeyCode::Up / KeyCode::Down while the library copy presents the category list
KeyCategoryMove ==
    /\ pc = "run_app" /\ build = "lib" /\ input_mode = "Categorizing"
    /\ \E key \in {"Up", "Down"} : Becomes(handle_category_selection(App, key))

Next ==
    \/ KeyQuit
    \/ KeyTab
    \/ KeyDetail
    \/ KeyEscNormal
    \/ KeyUp
    \/ KeyDown
    \/ KeySort
    \/ KeyFilter
    \/ KeyCategorize
    \/ KeyEnter
    \/ KeyEscInput
    \/ KeyBackspace
    \/ KeyChar
    \/ KeyCategoryMove

Spec == Init /\ [][Next]_vars

\* longest imported collection in the runs of the key dispatch alone
MaxKeysTx == 1

\* main on a file of at most MaxKeysTx rows
InitKeys == Init /\ Len(transactions) <= MaxKeysTx

SpecKeys == InitKeys /\ [][Next]_vars

-----------------------------------------------------------------------------
(* update_category_totals as a function: one call on any collection *)

\* the category fields tried: absent, a named category, and the name
\* "Uncategorized" itself (an entry of CategoryType::all())
TotalsCategories == {None, Some(CategoryType_all[1]), Some(Uncategorized)}

\* the collections tried: at most MaxTx rows, each with any of the categories
TotalsInputs ==
    UNION {[1..n -> [id : {0}, date : {t.date : t \in ImportedRows},
                     amount : {t.amount : t \in ImportedRows},
                     merchant : {<<>>}, description : {<<>>},
                     category : TotalsCategories]] : n \in 0..MaxTx}

InitTotals ==
    \E b \in {"bin", "lib"}, txs \in TotalsInputs :
        /\ build = b
        /\ pc = "call"
        /\ engine = NoCall
        /\ transactions = txs
        /\ filtered_transactions = <<>>
        /\ current_view = "TransactionList"
        /\ selected_transaction = None
        /\ category_totals = EmptyMap
        /\ list_state = IF txs # <<>> THEN Some(0) ELSE None
        /\ sort_field = "Date"
        /\ sort_order = "Descending"
        /\ input_mode = "Normal"
        /\ input_text = <<>>
        /\ filter = None
        /\ category_selection = None

\* app.update_category_totals()
CallUpdateTotals ==
    /\ pc = "call"
    /\ pc' = "returned"
    /\ transactions' = update_category_totals(App).transactions
    /\ category_totals' = update_category_totals(App).category_totals
    /\ UNCHANGED <<build, engine, filtered_transactions, current_view, selected_transaction,
                   list_state, sort_field, sort_order, input_mode, input_text, filter,
                   category_selection>>

NextTotals == CallUpdateTotals

SpecTotals == InitTotals /\ [][NextTotals]_vars

-----------------------------------------------------------------------------
(* Properties *)

\* the sum of the amounts of the transactions at the positions in I
sum_amounts(txs, I) ==
    LET RECURSIVE sum(_)
        sum(S) == IF S = {} THEN 0
                  ELSE LET i == CHOOSE j \in S : TRUE IN txs[i].amount + sum(S \ {i})
    IN  sum(I)

\* the sum of the values of a map
sum_values(m) ==
    LET RECURSIVE sum(_)
        sum(S) == IF S = {} THEN 0
                  ELSE LET k == CHOOSE j \in S : TRUE IN m[k] + sum(S \ {k})
    IN  sum(DOMAIN m)

\* C1: the map update_category_totals produces has one key per category that
\* occurs (an absent category under "Uncategorized"), each key's total is the
\* sum of the amounts of the transactions of that category, and the totals add
\* up to the sum of all amounts
C1_TotalsPartitionAmounts ==
    pc = "returned" =>
        /\ DOMAIN category_totals = {category_key(transactions[i]) : i \in 1..Len(transactions)}
        /\ \A k \in DOMAIN category_totals :
               category_totals[k] =
                   sum_amounts(transactions,
                               {i \in 1..Len(transactions) : category_key(transactions[i]) = k})
        /\ sum_values(category_totals) = sum_amounts(transactions, 1..Len(transactions))

\* a transaction without a category and one named "Uncategorized" share the
\* key "Uncategorized", whose total is the sum of both amounts and not zero
C1_Witness ==
    /\ pc = "returned"
    /\ \E i, j \in 1..Len(transactions) :
           /\ transactions[i].category = None
           /\ transactions[j].category = Some(Uncategorized)
           /\ category_totals[Uncategorized] = transactions[i].amount + transactions[j].amount
           /\ category_totals[Uncategorized] # 0

\* C2: the cached category_totals are the totals of the current transactions
C2_TotalsUpToDate ==
    pc \in {"run_app", "exited"} => category_totals = compute_totals(transactions)

\* render_transaction_list: the 0-based indices of the transactions it lists,
\* in the order of the list
visible_indices(a) ==
    IF a.filtered_transactions = <<>>
    THEN IF a.transactions = <<>> THEN <<>>
         ELSE [i \in 1..Len(a.transactions) |-> i - 1]
    ELSE a.filtered_transactions

\* the event loop has an App to act on
InLoop == pc \in {"run_app", "exited"}

\* the texts a filter can be applied with: the non-empty buffers
FilterTexts == UNION {[1..n -> InputChars] : n \in 1..MaxInputLen}

\* C3: the selection cursor, when present, addresses a visible transaction
C3_CursorInVisible ==
    InLoop =>
        /\ is_some(list_state) => unwrap(list_state) < Len(visible_indices(App))
        /\ is_some(selected_transaction) =>
               unwrap(selected_transaction) < Len(visible_indices(App))

\* C4: after apply_filter(f), f not empty, the visible list holds exactly the
\* transactions that match f, and is empty when none matches
C4_FilterShowsExactlyMatches ==
    InLoop =>
        \A f \in FilterTexts :
            LET after == apply_filter(App, f)
                shown == visible_indices(after)
            IN  {shown[i] : i \in 1..Len(shown)} =
                    {j \in 0..(Len(transactions) - 1) :
                        matches_filter(transactions[j + 1], to_lowercase(f))}

\* C5: submit_input in Categorizing mode, with category k highlighted and the
\* cursor at visible position i, gives the transaction shown at position i
\* the name of k and changes no other transaction
C5_SubmitCategorizesShownRow ==
    (/\ InLoop
     /\ input_mode = "Categorizing"
     /\ is_some(category_selection)
     /\ is_some(list_state)
     /\ selected_transaction = list_state
     /\ unwrap(list_state) < Len(visible_indices(App)))
    => submit_input(build, App).transactions =
           [transactions EXCEPT
               ![visible_indices(App)[unwrap(list_state) + 1] + 1].category =
                   Some(available_categories[unwrap(category_selection) + 1])]

\* n calls of App::next
next_times(a, n) ==
    LET RECURSIVE iter(_, _)
        iter(x, k) == IF k = 0 THEN x ELSE iter(next(x), k - 1)
    IN  iter(a, n)

\* C6: with N > 0 visible transactions and a cursor present, N calls of next
\* bring the cursor back to where it was
C6_NextIsCircular ==
    (/\ InLoop
     /\ is_some(list_state)
     /\ Len(visible_indices(App)) > 0)
    => next_times(App, Len(visible_indices(App))).list_state = list_state

\* the sequence on screen: the listed transactions, in the order of the list
displayed(a) ==
    LET shown == visible_indices(a)
    IN  IF shown = <<>> THEN <<>>
        ELSE [i \in 1..Len(shown) |-> a.transactions[shown[i] + 1]]

\* C7: two calls of toggle_sort_order leave the displayed sequence in the
\* order it had and restore sort_order
C7_ToggleTwiceRestores ==
    InLoop =>
        LET twice == toggle_sort_order(toggle_sort_order(App))
        IN  /\ displayed(twice) = displayed(App)
            /\ twice.sort_order = sort_order

\* C8: apply_filter("") and clear_filter lead to the same state
C8_EmptyFilterIsClear ==
    InLoop => apply_filter(App, <<>>) = clear_filter(App)

-----------------------------------------------------------------------------
(* Category::categorize_transaction as a function: two evaluations on one
   rule set and one text, each iterating the HashMap in some order *)

\* most rules per category in the rule sets tried
MaxRules == 1

EngineNames == {default_category_list[2].name, default_category_list[3].name}
EnginePatterns == {<<"K","P","N">>, <<"U","b","e","r">>}
EnginePriorities == {1, 2}
EngineMerchants ==
    {<<"K","P","N"," ","U","b","e","r">>, <<"U","B","E","R">>, <<"S","h","o","p">>,
     <<"A","L","B","E","R","T"," ","H","E","I","J","N"," ","1","2","3","4">>,
     <<"R","a","n","d","o","m"," ","S","h","o","p">>}
EngineDescriptions == {<<>>, <<"k","p","n">>}

\* the rule lists a category named n can own
RuleLists(n) ==
    UNION {[1..k -> [pattern : EnginePatterns, category : {n}, priority : EnginePriorities]] :
              k \in 0..MaxRules}

\* the rule sets tried: HashMaps from the names to categories owning such rules
RuleSets ==
    [EngineNames -> UNION {{[name |-> n, rules |-> r] : r \in RuleLists(n)} : n \in EngineNames}]

WellFormedRuleSets == {m \in RuleSets : \A n \in EngineNames : m[n].name = n}

\* the rule set {"Albert Heijn" -> Groceries p1, "Uber" -> Transportation p1}
ExampleCategories ==
    [n \in {default_category_list[1].name, default_category_list[3].name} |->
        IF n = default_category_list[1].name
        THEN Category_new(n, << << <<"A","l","b","e","r","t"," ","H","e","i","j","n">>, 1 >> >>)
        ELSE Category_new(n, << << <<"U","b","e","r">>, 1 >> >>)]

InitCategorize ==
    \E m \in WellFormedRuleSets \cup {ExampleCategories}, mt \in EngineMerchants,
       d \in EngineDescriptions :
        /\ build = "lib"
        /\ pc = "call"
        /\ engine = [categories |-> m, merchant |-> mt, description |-> d, results |-> <<>>]
        /\ transactions = <<>>
        /\ filtered_transactions = <<>>
        /\ current_view = "TransactionList"
        /\ selected_transaction = None
        /\ category_totals = EmptyMap
        /\ list_state = None
        /\ sort_field = "Date"
        /\ sort_order = "Descending"
        /\ input_mode = "Normal"
        /\ input_text = <<>>
        /\ filter = None
        /\ category_selection = None

\* one evaluation of Category::categorize_transaction(&categories, merchant,
\* description); the map's iteration order is any ordering of its keys
CallCategorize ==
    /\ pc = "call"
    /\ \E order \in Orderings(DOMAIN engine.categories) :
           engine' = [engine EXCEPT !.results =
                        Append(@, categorize_transaction(engine.categories, order,
                                                         engine.merchant, engine.description))]
    /\ pc' = IF Len(engine.results) = 1 THEN "returned" ELSE "call"
    /\ UNCHANGED <<build, transactions, filtered_transactions, current_view,
                   selected_transaction, category_totals, list_state, sort_field,
                   sort_order, input_mode, input_text, filter, category_selection>>

NextCategorize == CallCategorize

SpecCategorize == InitCategorize /\ [][NextCategorize]_vars

\* the rules of the engine's rule set that match the engine's text
matching_rules ==
    UNION {{engine.categories[n].rules[i] : i \in
               {j \in 1..Len(engine.categories[n].rules) :
                   rule_matches(engine.categories[n].rules[j], engine.merchant,
                                engine.description)}} :
           n \in DOMAIN engine.categories}

\* C9: two evaluations on the same rule set and text return the same category
C9_CategorizeDeterministic ==
    (engine # NoCall /\ Len(engine.results) = 2) => engine.results[1] = engine.results[2]

\* C10: when a rule matches, the category returned owns a matching rule that
\* no matching rule exceeds in priority
C10_ReturnsMaximalPriority ==
    engine # NoCall =>
        \A c \in 1..Len(engine.results) :
            matching_rules # {} =>
                /\ is_some(engine.results[c])
                /\ \E r \in matching_rules :
                       /\ r.category = unwrap(engine.results[c])
                       /\ \A q \in matching_rules : q.priority <= r.priority

\* two categories own matching rules of different priority, and an
\* evaluation has returned
C10_Witness ==
    /\ engine # NoCall
    /\ Len(engine.results) = 2
    /\ \E r, q \in matching_rules : r.category # q.category /\ r.priority < q.priority
                                    /\ engine.results[1] = Some(q.category)

\* pattern occurs in text when letter case is ignored: at some offset every
\* character of the pattern equals the text's character up to case
ci_substring(pattern, text) ==
    \E off \in 0..(Len(text) - Len(pattern)) :
        \A k \in 1..Len(pattern) :
            to_lowercase_char(text[off + k]) = to_lowercase_char(pattern[k])

\* C11: categorize_transaction returns a category exactly when some rule's
\* pattern, letter case ignored, is a substring of the merchant or of the
\* description, and none otherwise; with the rules Albert Heijn -> Groceries
\* and Uber -> Transportation, merchant "ALBERT HEIJN 1234" gives Groceries
\* and merchant "Random Shop" with an empty description gives none
C11_MatchIffSubstring ==
    engine # NoCall =>
        \A c \in 1..Len(engine.results) :
            /\ is_some(engine.results[c]) <=>
                   \E n \in DOMAIN engine.categories :
                       \E i \in 1..Len(engine.categories[n].rules) :
                           \/ ci_substring(engine.categories[n].rules[i].pattern, engine.merchant)
                           \/ ci_substring(engine.categories[n].rules[i].pattern,
                                           engine.description)
            /\ (/\ engine.categories = ExampleCategories
                /\ engine.description = <<>>
                /\ engine.merchant =
                       <<"A","L","B","E","R","T"," ","H","E","I","J","N"," ","1","2","3","4">>)
               => engine.results[c] = Some(default_category_list[1].name)
            /\ (/\ engine.categories = ExampleCategories
                /\ engine.description = <<>>
                /\ engine.merchant = <<"R","a","n","d","o","m"," ","S","h","o","p">>)
               => engine.results[c] = None

\* an evaluation returned a category for a text whose merchant matches no
\* rule and whose lower-case description holds an upper-case pattern
C11_Witness ==
    /\ engine # NoCall
    /\ Len(engine.results) = 2
    /\ engine.merchant = <<"S","h","o","p">>
    /\ engine.description = <<"k","p","n">>
    /\ is_some(engine.results[1])
    /\ \E n \in DOMAIN engine.categories :
           \E i \in 1..Len(engine.categories[n].rules) :
               engine.categories[n].rules[i].pattern = <<"K","P","N">>

\* C12: a key event changes the input sub-state only from Normal to Filtering,
\* from Normal to Categorizing, or from either of these to Normal, and Enter
\* or Esc pressed in Filtering or Categorizing leads to Normal in that step
C12_InputModeTransitions ==
    [][/\ (input_mode' # input_mode) =>
              (<<input_mode, input_mode'>> \in
                  {<<"Normal", "Filtering">>, <<"Normal", "Categorizing">>,
                   <<"Filtering", "Normal">>, <<"Categorizing", "Normal">>})
       /\ (KeyEnter \/ KeyEscInput) => (input_mode' = "Normal")]_vars

\* back in Normal after both round trips: a filter was submitted, and a
\* transaction no rule matches carries a category chosen in Categorizing mode
C12_Witness ==
    /\ pc = "run_app"
    /\ input_mode = "Normal"
    /\ is_some(filter)
    /\ \E i \in 1..Len(transactions) :
           /\ transactions[i].merchant = <<"T","a","x","i">>
           /\ is_some(transactions[i].category)

\* C13: in Categorizing mode the cursor selection is present and addresses
\* an existing transaction
C13_CategorizingHasCursor ==
    (InLoop /\ input_mode = "Categorizing") =>
        /\ is_some(selected_transaction)
        /\ unwrap(selected_transaction) < Len(transactions)

-----------------------------------------------------------------------------
(* The commands of the view state machine called one at a time, each on
   any App value the copies can hold *)

\* the input buffers tried
CallTexts == {<<>>} \cup FilterTexts

\* the list_state selections of a collection of n transactions: App::new
\* selects row 0 of a non-empty collection, next and previous keep the
\* selection at or below n - 1 (0 when n = 0)
CallListStates(n) == IF n = 0 THEN {None, Some(0)} ELSE {Some(i) : i \in 0..(n - 1)}

\* the values of selected_transaction: None until next or previous ran
CallSelections(n) == {None} \cup {Some(i) : i \in 0..saturating_sub(n, 1)}

\* the highlights: the binary's copy has none
CallHighlights(b) ==
    IF b = "lib" THEN {None} \cup {Some(i) : i \in 0..(MaxAvail - 1)} ELSE {None}

\* the App values tried: App::new on a file, the filter absent or applied
\* with some text, any selection, sub-state, buffer and highlight
\* the category table iterated in the order it is written in; no row of
\* Rows matches rules of two categories, so the order does not show
table_order == [i \in 1..Len(default_category_list) |-> default_category_list[i].name]

InitCall ==
    \E b \in {"bin", "lib"}, rows \in Files :
        \E new \in {App_new(b, rows, table_order)} :
            \E a \in {new} \cup {apply_filter(new, f) : f \in FilterTexts} :
                \E ls \in CallListStates(Len(a.transactions)),
                   sel \in CallSelections(Len(a.transactions)),
                   mode \in {"Normal", "Filtering", "Categorizing"},
                   text \in CallTexts,
                   hl \in CallHighlights(b) :
                    /\ build = b
                    /\ pc = "call"
                    /\ engine = NoCall
                    /\ transactions = a.transactions
                    /\ filtered_transactions = a.filtered_transactions
                    /\ current_view = a.current_view
                    /\ selected_transaction = sel
                    /\ category_totals = a.category_totals
                    /\ list_state = ls
                    /\ sort_field = a.sort_field
                    /\ sort_order = a.sort_order
                    /\ input_mode = mode
                    /\ input_text = text
                    /\ filter = a.filter
                    /\ category_selection = hl

\* the App value a is written back to the App the call was made on
Assigns(a) ==
    /\ build' = build
    /\ transactions' = a.transactions
    /\ filtered_transactions' = a.filtered_transactions
    /\ current_view' = a.current_view
    /\ selected_transaction' = a.selected_transaction
    /\ category_totals' = a.category_totals
    /\ list_state' = a.list_state
    /\ sort_field' = a.sort_field
    /\ sort_order' = a.sort_order
    /\ input_mode' = a.input_mode
    /\ input_text' = a.input_text
    /\ filter' = a.filter
    /\ category_selection' = a.category_selection

\* a call op(arg) has changed the App to a; the App before it is kept
Called(op, arg, a) ==
    /\ engine' = [op |-> op, arg |-> arg, before |-> App]
    /\ Assigns(a)

\* the call op(arg) is the last one made
Returns(op, arg, a) == pc' = "returned" /\ Called(op, arg, a)

\* Esc while a prompt is open
CallCancel ==
    /\ pc = "call" /\ input_mode \in {"Filtering", "Categorizing"}
    /\ Returns("cancel", <<>>, cancel(build, App))

\* app.submit_input()
CallSubmitInput ==
    /\ pc = "call"
    /\ Returns("submit_input", <<>>, submit_input(build, App))

\* app.apply_filter(text)
CallApplyFilter ==
    /\ pc = "call"
    /\ \E text \in CallTexts : Returns("apply_filter", text, apply_filter(App, text))

NextCall ==
    \/ CallCancel
    \/ CallSubmitInput
    \/ CallApplyFilter

SpecCall == InitCall /\ [][NextCall]_vars

\* the call that has returned
Returned(op) == pc = "returned" /\ engine # NoCall /\ engine.op = op

ci_matches(t, f) ==
    \/ ci_substring(f, t.merchant)
    \/ ci_substring(f, t.description)
    \/ (is_some(t.category) /\ ci_substring(f, unwrap(t.category)))

\* C15: after submit_input from any sub-state the buffer is empty and the
\* mode is Normal; from Filtering a non-empty buffer is applied as the filter
\* and an empty buffer clears the filter
C15_SubmitClearsAndFilters ==
    Returned("submit_input") =>
        /\ input_text = <<>>
        /\ input_mode = "Normal"
        /\ engine.before.input_mode = "Filtering" =>
               IF engine.before.input_text # <<>>
               THEN /\ filter = Some(to_lowercase(engine.before.input_text))
                    /\ elements(filtered_transactions) =
                           {i \in 0..(Len(transactions) - 1) :
                               ci_matches(transactions[i + 1], engine.before.input_text)}
               ELSE /\ filter = None
                    /\ filtered_transactions = <<>>

\* a submit in Filtering mode that applied the buffer's upper-case text as the filter
C15_Witness ==
    /\ Returned("submit_input")
    /\ engine.before.input_mode = "Filtering"
    /\ engine.before.input_text = <<"T">>
    /\ filter = Some(<<"t">>)
    /\ filtered_transactions # <<>>
    /\ input_text = <<>>

\* C16: handle_input and handle_backspace change the buffer only in
\* Filtering mode, where they change nothing else and backspace on an empty
\* buffer does nothing; in Normal mode and in the library copy's Categorizing
\* mode, where the category is picked from the list, they change nothing
\* (stated for the states with a transaction to categorize)
C16_BufferEditsOnlyInFiltering ==
    (InLoop /\ build = "lib" /\ transactions # <<>>) =>
        /\ input_mode # "Filtering" =>
               /\ \A c \in InputChars : handle_input(App, c) = App
               /\ handle_backspace(App) = App
        /\ input_mode = "Filtering" =>
               /\ \A c \in InputChars :
                      handle_input(App, c) = [App EXCEPT !.input_text = input_text \o <<c>>]
               /\ handle_backspace(App) =
                      [App EXCEPT !.input_text =
                          IF input_text = <<>> THEN <<>>
                          ELSE SubSeq(input_text, 1, Len(input_text) - 1)]

\* C17: while the collection is empty the cursor, list_state's selection and
\* selected_transaction, stays absent whatever keys were pressed
C17_EmptyCollectionKeepsNoCursor ==
    (InLoop /\ transactions = <<>>) =>
        /\ list_state = None
        /\ selected_transaction = None

\* C18: after clear_filter the filter is absent, the visible index sequence
\* is dropped, all transactions are listed, the transactions and the totals
\* are as before, and on a non-empty collection both the highlighted row and
\* the row acted on are the first one
C18_ClearFilterResetsCursor ==
    InLoop =>
        LET after == clear_filter(App)
        IN  /\ after.filter = None
            /\ after.filtered_transactions = <<>>
            /\ Len(visible_indices(after)) = Len(transactions)
            /\ after.transactions = transactions
            /\ after.category_totals = category_totals
            /\ transactions # <<>> =>
                   /\ after.list_state = Some(0)
                   /\ after.selected_transaction = Some(0)

SortFields == {"Date", "Amount", "Merchant", "Category"}

\* the sequence sort_transactions orders, after the call: the visible index
\* sequence when it is not empty, else the collection
sorted_sequence(a) ==
    IF a.filtered_transactions # <<>>
    THEN sort_transactions(a).filtered_transactions
    ELSE sort_transactions(a).transactions

\* a sequence back to front
back_to_front(s) == IF s = <<>> THEN <<>> ELSE [i \in 1..Len(s) |-> s[Len(s) + 1 - i]]

\* C20: for every sort field, sorting Descending gives the reverse of the
\* sequence that sorting the same input Ascending gives
C20_DescendingIsReverseOfAscending ==
    InLoop =>
        \A field \in SortFields :
            sorted_sequence([App EXCEPT !.sort_field = field, !.sort_order = "Descending"]) =
                back_to_front(
                    sorted_sequence([App EXCEPT !.sort_field = field, !.sort_order = "Ascending"]))

-----------------------------------------------------------------------------
(* read_transactions_from_csv called on files with malformed records *)

\* most records in the files read
MaxImportRows == 3

\* records whose source amount carries its own minus sign
SignedRows ==
    { Record(<<"2","0","2","4","0","1","0","2">>, <<"U","b","e","r">>, <<"D","e","b","i","t">>,
             <<"-","1","2",",","5","0">>, <<>>),
      Record(<<"2","0","2","4","0","1","0","1">>, <<"T","a","x","i">>, <<"C","r","e","d","i","t">>,
             <<"-","1","2",",","5","0">>, <<>>) }

\* malformed records: too few fields (6 and 8), a record the reader cannot
\* decode, a date that is no date, an amount that is no number
MalformedRows ==
    LET good == Record(<<"2","0","2","4","0","1","0","2">>, <<"U","b","e","r">>, <<"D","e","b","i","t">>,
                       <<"1","2",",","5","0">>, <<>>)
    IN  { [good EXCEPT !.fields = 6],
          [good EXCEPT !.fields = 8],
          [good EXCEPT !.readable = FALSE],
          [good EXCEPT !.date = <<"2","0","2","4","1","3","0","1">>],
          [good EXCEPT !.amount = <<"x">>] }

\* the records and the header widths of the files read
ImportRows == Rows \cup SignedRows \cup MalformedRows
ImportWidths == {6, 8, ExportColumns}

ImportFiles ==
    {[width |-> w, rows |-> rows] :
        w \in ImportWidths, rows \in UNION {[1..n -> ImportRows] : n \in 0..MaxImportRows}}

InitImport ==
    \E b \in {"bin", "lib"}, f \in ImportFiles :
        /\ build = b
        /\ pc = "call"
        /\ engine = [op |-> "read_transactions_from_csv", file |-> f, result |-> None]
        /\ transactions = <<>>
        /\ filtered_transactions = <<>>
        /\ current_view = "TransactionList"
        /\ selected_transaction = None
        /\ category_totals = EmptyMap
        /\ list_state = None
        /\ sort_field = "Date"
        /\ sort_order = "Descending"
        /\ input_mode = "Normal"
        /\ input_text = <<>>
        /\ filter = None
        /\ category_selection = None

\* let transactions = read_transactions_from_csv(path)
CallReadCsv ==
    /\ pc = "call"
    /\ engine.op = "read_transactions_from_csv"
    /\ \E res \in {read_transactions_from_csv(build, engine.file)} :
           /\ engine' = [engine EXCEPT !.result = Some(res.outcome)]
           /\ transactions' = res.transactions
    /\ pc' = "returned"
    /\ UNCHANGED <<build, filtered_transactions, current_view, selected_transaction,
                   category_totals, list_state, sort_field, sort_order, input_mode,
                   input_text, filter, category_selection>>

NextImport == CallReadCsv

SpecImport == InitImport /\ [][NextImport]_vars

\* the import has returned Ok with the transactions in `transactions`
Imported == Returned("read_transactions_from_csv") /\ engine.result = Some("Ok")

\* C25: the ids of the imported transactions are strictly increasing in the
\* order of the file, hence pairwise distinct, also when records were skipped
C25_IdsStrictlyIncreasing ==
    Imported =>
        \A i, j \in 1..Len(transactions) : i < j => transactions[i].id < transactions[j].id

\* two transactions imported around a skipped record
C25_Witness ==
    /\ Imported
    /\ Len(transactions) = 2
    /\ Len(engine.file.rows) = 3
    /\ engine.file.rows[2] \in MalformedRows
    /\ transactions[1].id < transactions[2].id

\* the position in the file of the record transaction t was imported from,
\* where no record before it was skipped
record_of(t) == IF build = "lib" THEN t.id ELSE t.id + 1

\* C26: a transaction imported from a record with the Debit marker has an
\* amount <= 0, one imported from a record with another marker an amount >= 0
\* (stated for the files whose records are all imported)
C26_SignFollowsMarker ==
    (Imported /\ Len(transactions) = Len(engine.file.rows)) =>
        \A k \in 1..Len(transactions) :
            IF engine.file.rows[record_of(transactions[k])].marker = <<"D","e","b","i","t">>
            THEN transactions[k].amount <= 0
            ELSE transactions[k].amount >= 0

\* the record is malformed: too few fields, not decodable, bad date or bad amount
is_malformed(r) ==
    \/ ~r.readable
    \/ r.fields < ExportColumns
    \/ ~is_some(parse_date(r.date))
    \/ ~is_some(Decimal_from_str(replace(r.amount, ",", ".")))

\* the import of the file that holds only record i of the file read
outcome_alone(i) ==
    read_transactions_from_csv(build, [width |-> engine.file.width,
                                       rows |-> <<engine.file.rows[i]>>]).outcome

\* C27: the malformed records of a file are all treated alike: either each,
\* alone in the file, is skipped and the import returns Ok, or each aborts it
C27_OnePolicyForMalformedRows ==
    Returned("read_transactions_from_csv") =>
        \A i, j \in 1..Len(engine.file.rows) :
            (is_malformed(engine.file.rows[i]) /\ is_malformed(engine.file.rows[j])) =>
                ((outcome_alone(i) = "Ok") <=> (outcome_alone(j) = "Ok"))

-----------------------------------------------------------------------------
(* sort_transactions and toggle_sort_order called on any collection, with
   any sort field and order, with and without a filter *)

\* the file of the scenario: amounts +5, -3, +1, the first and the third
\* row of one date
ExampleFile ==
    << Record(<<"2","0","2","4","0","1","0","1">>, <<"A">>, <<"C","r","e","d","i","t">>, <<"5",",","0","0">>, <<>>),
       Record(<<"2","0","2","4","0","1","0","2">>, <<"B">>, <<"D","e","b","i","t">>, <<"3",",","0","0">>, <<>>),
       Record(<<"2","0","2","4","0","1","0","1">>, <<"C">>, <<"C","r","e","d","i","t">>, <<"1",",","0","0">>, <<>>) >>

\* the filter texts submitted before the sort: one that matches rows, one
\* that matches none
SortFilterTexts == {<<"T">>, <<"Z">>}

InitSort ==
    \E b \in {"bin", "lib"}, rows \in Files \cup {ExampleFile} :
        \E new \in {App_new(b, rows, table_order)} :
            \E a \in {new} \cup {apply_filter(new, f) : f \in SortFilterTexts},
               field \in SortFields, order \in {"Ascending", "Descending"} :
                /\ build = b
                /\ pc = "call"
                /\ engine = NoCall
                /\ transactions = a.transactions
                /\ filtered_transactions = a.filtered_transactions
                /\ current_view = a.current_view
                /\ selected_transaction = a.selected_transaction
                /\ category_totals = a.category_totals
                /\ list_state = a.list_state
                /\ sort_field = field
                /\ sort_order = order
                /\ input_mode = a.input_mode
                /\ input_text = a.input_text
                /\ filter = a.filter
                /\ category_selection = a.category_selection

\* app.sort_transactions(), the first or the second call of the run
CallSortTransactions ==
    /\ pc = "call"
    /\ pc' = IF engine = NoCall THEN "call" ELSE "returned"
    /\ Called("sort_transactions", <<>>, sort_transactions(App))

\* app.toggle_sort_order(), the first or the second call of the run
CallToggleSortOrder ==
    /\ pc = "call"
    /\ pc' = IF engine = NoCall THEN "call" ELSE "returned"
    /\ Called("toggle_sort_order", <<>>, toggle_sort_order(App))

NextSort ==
    \/ CallSortTransactions
    \/ CallToggleSortOrder

SpecSort == InitSort /\ [][NextSort]_vars

\* the last call was a sort
Sorted == engine # NoCall /\ engine.op \in {"sort_transactions", "toggle_sort_order"}

\* the number of positions of s that hold x
count(s, x) == Cardinality({i \in 1..Len(s) : s[i] = x})

\* the order of two transactions in the sort field
field_order(ta, tb, field) ==
    CASE field = "Date" -> cmp_int(ta.date, tb.date)
      [] field = "Amount" -> cmp_int(ta.amount, tb.amount)
      [] field = "Merchant" -> cmp_str(ta.merchant, tb.merchant)
      [] field = "Category" -> cmp_option_str(ta.category, tb.category)

\* the amounts of a sequence of transactions
amounts(s) == IF s = <<>> THEN <<>> ELSE [i \in 1..Len(s) |-> s[i].amount]

\* C21: after sort_transactions or toggle_sort_order the displayed sequence
\* is a permutation of the one displayed before, non-decreasing in the sort
\* field when sort_order is Ascending and non-increasing when Descending;
\* the amounts +5, -3, +1 sorted ascending are -3, +1, +5, and the toggle
\* then gives +5, +1, -3
C21_SortedPermutation ==
    Sorted =>
        LET before == displayed(engine.before)
            after == displayed(App)
        IN  /\ Len(after) = Len(before)
            /\ \A x \in elements(before) \cup elements(after) :
                   count(after, x) = count(before, x)
            /\ \A i \in 1..(Len(after) - 1) :
                   field_order(after[i], after[i + 1], sort_field) #
                       (IF sort_order = "Ascending" THEN Greater ELSE Less)
            /\ (/\ sort_field = "Amount"
                /\ sort_order = "Ascending"
                /\ amounts(before) = <<500, -300, 100>>)
               => amounts(after) = <<-300, 100, 500>>
            /\ (/\ sort_field = "Amount"
                /\ engine.op = "toggle_sort_order"
                /\ engine.before.sort_order = "Ascending"
                /\ amounts(before) = <<-300, 100, 500>>)
               => amounts(after) = <<500, 100, -300>>

\* the scenario: the amounts were sorted ascending to -3, +1, +5 and the
\* toggle that followed displays +5, +1, -3
C21_Witness ==
    /\ Sorted
    /\ pc = "returned"
    /\ sort_field = "Amount"
    /\ engine.op = "toggle_sort_order"
    /\ amounts(displayed(engine.before)) = <<-300, 100, 500>>
    /\ amounts(displayed(App)) = <<500, 100, -300>>

\* C22: with a filter stored, also one that matched no transaction,
\* sort_transactions leaves the collection in its order; without a filter it
\* leaves the visible index sequence empty (stated for the sort field
\* App::new sets)
C22_SortTargetFollowsFilter ==
    (Sorted /\ engine.before.sort_field = "Date") =>
        /\ is_some(engine.before.filter) => transactions = engine.before.transactions
        /\ ~is_some(engine.before.filter) => filtered_transactions = <<>>

-----------------------------------------------------------------------------
(* handle_category_selection called several times in a row on the library's
   App, with and without a highlight *)

\* the number of keys of one run
MaxHighlightKeys == 3

\* the key codes handed to handle_category_selection
HighlightKeys == {"Up", "Down", "Left"}

InitHighlight ==
    \E rows \in Files :
        \E new \in {App_new("lib", rows, table_order)} :
            \E sel \in {None} \cup {Some(i) : i \in 0..(Len(available_categories) - 1)} :
                /\ build = "lib"
                /\ pc = "call"
                /\ transactions = new.transactions
                /\ filtered_transactions = new.filtered_transactions
                /\ current_view = new.current_view
                /\ selected_transaction = new.selected_transaction
                /\ category_totals = new.category_totals
                /\ list_state = new.list_state
                /\ sort_field = new.sort_field
                /\ sort_order = new.sort_order
                /\ input_mode = "Categorizing"
                /\ input_text = new.input_text
                /\ filter = new.filter
                /\ category_selection = sel
                /\ engine = [op |-> "handle_category_selection", keys |-> <<>>,
                             trail |-> << [new EXCEPT !.input_mode = "Categorizing",
                                               !.category_selection = sel] >>]

\* app.handle_category_selection(key); the keys and the states of the run
\* are recorded
CallCategoryKey ==
    /\ pc = "call"
    /\ \E key \in HighlightKeys :
        \E a \in {handle_category_selection(App, key)} :
            /\ Assigns(a)
            /\ engine' = [engine EXCEPT !.keys = Append(@, key), !.trail = Append(@, a)]
            /\ pc' = IF Len(engine.keys) + 1 >= MaxHighlightKeys THEN "returned" ELSE "call"

NextHighlight == CallCategoryKey

SpecHighlight == InitHighlight /\ [][NextHighlight]_vars

\* C23: handle_category_selection moves the highlight circularly in the
\* enumerated category list: the index stays below the list length, Down
\* from the last entry gives the first and Up from the first the last, as
\* many Downs as the list has entries give the starting index again, an Up
\* undoes a Down and a Down an Up, nothing else of the state changes, and
\* without a highlight the keys change nothing
C23_HighlightMovesCircularly ==
    LET L == Len(available_categories)
        keys == engine.keys
        trail == engine.trail
        n == Len(keys)
        sel(i) == trail[i].category_selection
    IN  /\ \A i \in 1..(n + 1) : is_some(sel(i)) => unwrap(sel(i)) < L
        /\ \A i \in 1..n :
            /\ ~is_some(sel(i)) => trail[i + 1] = trail[i]
            /\ trail[i + 1] = [trail[i] EXCEPT !.category_selection = sel(i + 1)]
            /\ is_some(sel(i)) <=> is_some(sel(i + 1))
            /\ (keys[i] = "Down" /\ sel(i) = Some(L - 1)) => sel(i + 1) = Some(0)
            /\ (keys[i] = "Up" /\ sel(i) = Some(0)) => sel(i + 1) = Some(L - 1)
            /\ (keys[i] = "Down" /\ is_some(sel(i)) /\ sel(i) # Some(L - 1))
                   => sel(i + 1) = Some(unwrap(sel(i)) + 1)
            /\ (keys[i] = "Up" /\ is_some(sel(i)) /\ sel(i) # Some(0))
                   => sel(i + 1) = Some(unwrap(sel(i)) - 1)
        /\ \A i \in 1..(n - 1) :
            ({keys[i], keys[i + 1]} = {"Up", "Down"}) => trail[i + 2] = trail[i]
        /\ \A i \in 1..(n + 1 - L) :
            (\A j \in i..(i + L - 1) : keys[j] = "Down") => trail[i + L] = trail[i]

\* as many Downs as the list has entries, from the last entry: the first Down
\* wrapped to the first entry and the last one is back on the last entry
C23_Witness ==
    LET L == Len(available_categories)
    IN  /\ Len(engine.keys) = L
        /\ \A j \in 1..L : engine.keys[j] = "Down"
        /\ engine.trail[1].category_selection = Some(L - 1)
        /\ engine.trail[2].category_selection = Some(0)
        /\ category_selection = Some(L - 1)

-----------------------------------------------------------------------------
(* run_app on the files of two records *)

InitSession == Init /\ Len(transactions) = 2

SpecSession == InitSession /\ [][Next]_vars

\* a transaction without its category
imported_fields(t) ==
    [id |-> t.id, date |-> t.date, amount |-> t.amount,
     merchant |-> t.merchant, description |-> t.description]

\* the multiset of the transactions of s without their categories
imported_bag(s) ==
    [x \in {imported_fields(s[i]) : i \in 1..Len(s)} |->
        Cardinality({i \in 1..Len(s) : imported_fields(s[i]) = x})]

\* C24: no command adds, deletes or duplicates a transaction or changes a
\* field other than category: every step keeps the multiset of the
\* transactions projected on (id, date, amount, merchant, description), which
\* is the one App::new imported
C24_OnlyCategoryChanges ==
    [][imported_bag(transactions') = imported_bag(transactions)]_vars

\* the collection has been reordered (the ids, which the import hands out in
\* file order, are not increasing) and a category has been set by hand
C24_Witness ==
    /\ InLoop
    /\ Len(transactions) = 2
    /\ transactions[1].id > transactions[2].id
    /\ \A order \in HashOrders :
           transactions # categorize_all_transactions("lib", App, order).transactions

\* C30: the category of every transaction is absent or a name of the
\* enumerated category list; a manual categorization stores no other name
C30_CategoryIsKnownName ==
    InLoop =>
        \A i \in 1..Len(transactions) :
            \/ transactions[i].category = None
            \/ unwrap(transactions[i].category) \in elements(CategoryType_all)

-----------------------------------------------------------------------------
(* The SQLite category store: CategoryDb on the schema DbConnection::new
   creates.  A store is the rows of the tables categories, category_rules
   and transaction_categories; the code never deletes a row, so the next
   rowid of a table is its number of rows plus one. *)

\* the tables of a new database
EmptyStore == [categories |-> <<>>, rules |-> <<>>, assignments |-> <<>>]

\* Category::default_categories()
Category_default_categories == default_category_list

\* a row of categories has this name (the column is UNIQUE)
name_stored(store, name) ==
    \E i \in 1..Len(store.categories) : store.categories[i].name = name

\* the statements of save_category, numbered: 1 opens the transaction, 2
\* inserts the category, 3 .. 2 + r insert its r rules, 3 + r commits
commit_statement(category) == 3 + Len(category.rules)

\* the tables after the statements 2 .. upto of save_category have run
save_statements(store, category, upto) ==
    LET category_id == Len(store.categories) + 1
        inserted == IF upto - 2 < Len(category.rules) THEN upto - 2 ELSE Len(category.rules)
    IN  IF upto < 2 THEN store
        ELSE [categories |-> Append(store.categories,
                                    [id |-> category_id, name |-> category.name]),
              rules |-> store.rules \o
                        [i \in 1..inserted |->
                            [id |-> Len(store.rules) + i,
                             category_id |-> category_id,
                             pattern |-> category.rules[i].pattern,
                             priority |-> category.rules[i].priority]],
              assignments |-> store.assignments]

\* the statement of save_category that returns an error, 0 if none does:
\* statement fail_at fails for a reason outside the program, and the insert
\* of a stored name fails on the UNIQUE constraint
failing_statement(store, category, fail_at) ==
    IF fail_at = 1 THEN 1
    ELSE IF name_stored(store, category.name) \/ fail_at = 2 THEN 2
    ELSE IF fail_at >= 3 /\ fail_at <= commit_statement(category) THEN fail_at
    ELSE 0

\* a slip: the statements run on the connection, without a transaction
save_category_without_transaction(store, category, fail_at) ==
    LET failed == failing_statement(store, category, fail_at)
    IN  IF failed = 0
        THEN [outcome |-> "Ok", id |-> Some(Len(store.categories) + 1),
              store |-> save_statements(store, category, commit_statement(category))]
        ELSE [outcome |-> "Err", id |-> None,
              store |-> save_statements(store, category, failed - 1)]

\* CategoryDb::save_category: an error returns through `?` and drops the
\* transaction, which rolls it back
save_category(store, category, fail_at) ==
    LET failed == failing_statement(store, category, fail_at)
    IN  IF failed = 0
        THEN [outcome |-> "Ok", id |-> Some(Len(store.categories) + 1),
              store |-> save_statements(store, category, commit_statement(category))]
        ELSE [outcome |-> "Err", id |-> None, store |-> store]

\* no statement fails for a reason outside the program
NoFault == [save |-> 0, at |-> 0]

\* CategoryDb::initialize_default_categories: the loop from the i-th default
\* category on; fault.at is the failing statement of the fault.save-th save
RECURSIVE initialize_from(_, _, _)
initialize_from(store, i, fault) ==
    IF i > Len(Category_default_categories) THEN [outcome |-> "Ok", store |-> store]
    ELSE LET saved == save_category(store, Category_default_categories[i],
                                    IF fault.save = i THEN fault.at ELSE 0)
         IN  IF saved.outcome = "Err" THEN [outcome |-> "Err", store |-> saved.store]
             ELSE initialize_from(saved.store, i + 1, fault)

\* CategoryDb::initialize_default_categories
initialize_default_categories(store, fault) == initialize_from(store, 1, fault)

\* the rows the LEFT JOIN gives for category c: one for each of its rules
\* from the i-th row of category_rules on
RECURSIVE rule_rows(_, _, _)
rule_rows(c, rules, i) ==
    IF i > Len(rules) THEN <<>>
    ELSE (IF rules[i].category_id = c.id
          THEN << [id |-> c.id, name |-> c.name,
                   pattern |-> Some(rules[i].pattern),
                   priority |-> Some(rules[i].priority)] >>
          ELSE <<>>) \o rule_rows(c, rules, i + 1)

\* LEFT JOIN: a category without a rule gives one row with NULL columns
left_join(c, matched) ==
    IF matched = <<>>
    THEN << [id |-> c.id, name |-> c.name, pattern |-> None, priority |-> None] >>
    ELSE matched

\* the rows of categories LEFT JOIN category_rules from the i-th category
\* on, as a nested loop over the two tables produces them
RECURSIVE joined_from(_, _)
joined_from(store, i) ==
    IF i > Len(store.categories) THEN <<>>
    ELSE left_join(store.categories[i], rule_rows(store.categories[i], store.rules, 1))
            \o joined_from(store, i + 1)

\* SELECT ... FROM categories c LEFT JOIN category_rules cr ON c.id = cr.category_id
joined_rows(store) == joined_from(store, 1)

\* the order k of n rows with the rows i and i + 1 exchanged
exchange(n, i) ==
    [k \in 1..n |-> IF k = i THEN i + 1 ELSE IF k = i + 1 THEN i ELSE k]

\* the orders in which a SELECT without ORDER BY is taken to return its n
\* rows: the order of the nested loop, its reverse, and the orders with two
\* neighbouring rows exchanged
row_orders(n) ==
    {[k \in 1..n |-> k], [k \in 1..n |-> n + 1 - k]} \cup {exchange(n, i) : i \in 1..(n - 1)}

\* the rows in the order `order`
in_order(rows, order) == [k \in 1..Len(rows) |-> rows[order[k]]]

\* get_all_categories: the loop over the rows from row i on, with the
\* categories pushed so far and current_category
RECURSIVE collect_rows(_, _, _, _)

\* the end of the loop body: a row with a pattern and a priority adds a rule
\* to the current category
collect_rule(rows, i, categories, current) ==
    IF is_some(rows[i].pattern) /\ is_some(rows[i].priority)
    THEN collect_rows(rows, i + 1, categories,
                      Some([current EXCEPT !.category.rules =
                              Append(@, [pattern |-> unwrap(rows[i].pattern),
                                         category |-> current.category.name,
                                         priority |-> unwrap(rows[i].priority)])]))
    ELSE collect_rows(rows, i + 1, categories, Some(current))

\* the middle of the loop body: without a current category the row starts one
collect_start(rows, i, categories, current) ==
    IF is_some(current)
    THEN collect_rule(rows, i, categories, unwrap(current))
    ELSE collect_rule(rows, i, categories,
                      [id |-> rows[i].id,
                       category |-> [name |-> rows[i].name, rules |-> <<>>]])

\* the start of the loop body: a row of another id closes the current
\* category; after the last row the current category is pushed
collect_rows(rows, i, categories, current) ==
    IF i > Len(rows)
    THEN (IF is_some(current) THEN Append(categories, unwrap(current).category)
          ELSE categories)
    ELSE IF is_some(current) /\ unwrap(current).id # rows[i].id
         THEN collect_start(rows, i, Append(categories, unwrap(current).category), None)
         ELSE collect_start(rows, i, categories, current)

\* CategoryDb::get_all_categories on the rows the query returns
get_all_categories(rows) == collect_rows(rows, 1, <<>>, None)

\* WHERE c.name = ?
RECURSIVE where_name(_, _, _)
where_name(rows, name, i) ==
    IF i > Len(rows) THEN <<>>
    ELSE (IF rows[i].name = name THEN <<rows[i]>> ELSE <<>>) \o where_name(rows, name, i + 1)

\* the rules get_category_by_name pushes for the rows from row i on
RECURSIVE named_rules(_, _)
named_rules(rows, i) ==
    IF i > Len(rows) THEN <<>>
    ELSE (IF is_some(rows[i].pattern) /\ is_some(rows[i].priority)
          THEN << [pattern |-> unwrap(rows[i].pattern),
                   category |-> rows[1].name,
                   priority |-> unwrap(rows[i].priority)] >>
          ELSE <<>>) \o named_rules(rows, i + 1)

\* CategoryDb::get_category_by_name on the rows the query returns
get_category_by_name(rows) ==
    IF rows = <<>> THEN None
    ELSE Some([name |-> rows[1].name, rules |-> named_rules(rows, 1)])

\* CategoryDb::assign_category: the INSERT OR REPLACE names no id column, so
\* the row gets the next rowid; `fails` is an error outside the program
assign_category(store, t_id, c_id, fails) ==
    IF fails THEN [outcome |-> "Err", store |-> store]
    ELSE [outcome |-> "Ok",
          store |-> [store EXCEPT !.assignments =
                        Append(@, [id |-> Len(store.assignments) + 1,
                                   transaction_id |-> t_id,
                                   category_id |-> c_id])]]

\* the calls of one run
MaxStoreCalls == 3

\* the last statement of a save that can be made to fail
MaxStoreFault == 5

\* the categories handed to save_category: without a rule, with one rule,
\* and a default category with two rules
StoreCategories ==
    { Category_new(<<"S","h","o","p","p","i","n","g">>, <<>>),
      Category_new(<<"T","r","a","v","e","l">>, << << <<"H","o","t","e","l">>, 2 >> >>),
      Category_default_categories[3] }

\* the faults of a call of initialize_default_categories
StoreFaults ==
    {NoFault} \cup {[save |-> i, at |-> k] : i \in 1..2, k \in 1..MaxStoreFault}

InitStore ==
    /\ build = "lib"
    /\ pc = "call"
    /\ engine = [op |-> "DbConnection::new", arg |-> <<>>, fault |-> NoFault,
                 before |-> EmptyStore, store |-> EmptyStore, outcome |-> "Ok",
                 id |-> None, result |-> <<>>, calls |-> 0]
    /\ transactions = <<>>
    /\ filtered_transactions = <<>>
    /\ current_view = "TransactionList"
    /\ selected_transaction = None
    /\ category_totals = EmptyMap
    /\ list_state = None
    /\ sort_field = "Date"
    /\ sort_order = "Descending"
    /\ input_mode = "Normal"
    /\ input_text = <<>>
    /\ filter = None
    /\ category_selection = None

\* the App is not touched by the store
StoreFrame ==
    UNCHANGED <<build, transactions, filtered_transactions, current_view,
                selected_transaction, category_totals, list_state, sort_field,
                sort_order, input_mode, input_text, filter, category_selection>>

\* category_db.save_category(&category)
CallSaveCategory ==
    /\ pc = "call"
    /\ \E category \in StoreCategories, fail_at \in 0..MaxStoreFault :
        \E saved \in {save_category(engine.store, category, fail_at)} :
            engine' = [op |-> "save_category", arg |-> category,
                       fault |-> [save |-> 1, at |-> fail_at],
                       before |-> engine.store, store |-> saved.store,
                       outcome |-> saved.outcome, id |-> saved.id,
                       result |-> <<>>, calls |-> engine.calls + 1]
    /\ pc' = IF engine.calls + 1 >= MaxStoreCalls THEN "returned" ELSE "call"
    /\ StoreFrame

\* category_db.initialize_default_categories()
CallInitializeDefaultCategories ==
    /\ pc = "call"
    /\ \E fault \in StoreFaults :
        \E done \in {initialize_default_categories(engine.store, fault)} :
            engine' = [op |-> "initialize_default_categories", arg |-> <<>>,
                       fault |-> fault,
                       before |-> engine.store, store |-> done.store,
                       outcome |-> done.outcome, id |-> None,
                       result |-> <<>>, calls |-> engine.calls + 1]
    /\ pc' = IF engine.calls + 1 >= MaxStoreCalls THEN "returned" ELSE "call"
    /\ StoreFrame

\* the names looked up: two that save_category is called with and one it is
\* never called with
StoreNames ==
    {<<"S","h","o","p","p","i","n","g">>, Category_default_categories[3].name, <<"N","o","n","e">>}

\* the transaction ids categories are assigned to
StoreTransactionIds == {1, 2}

\* category_db.get_all_categories()
CallGetAllCategories ==
    /\ pc = "call"
    /\ \E rows \in {joined_rows(engine.store)} :
        \E order \in row_orders(Len(rows)) :
            engine' = [op |-> "get_all_categories", arg |-> order,
                       fault |-> NoFault,
                       before |-> engine.store, store |-> engine.store,
                       outcome |-> "Ok", id |-> None,
                       result |-> get_all_categories(in_order(rows, order)),
                       calls |-> engine.calls + 1]
    /\ pc' = IF engine.calls + 1 >= MaxStoreCalls THEN "returned" ELSE "call"
    /\ StoreFrame

\* category_db.get_category_by_name(name)
CallGetCategoryByName ==
    /\ pc = "call"
    /\ \E name \in StoreNames :
        \E rows \in {where_name(joined_rows(engine.store), name, 1)} :
            \E order \in row_orders(Len(rows)) :
                engine' = [op |-> "get_category_by_name", arg |-> name,
                           fault |-> NoFault,
                           before |-> engine.store, store |-> engine.store,
                           outcome |-> "Ok", id |-> None,
                           result |-> get_category_by_name(in_order(rows, order)),
                           calls |-> engine.calls + 1]
    /\ pc' = IF engine.calls + 1 >= MaxStoreCalls THEN "returned" ELSE "call"
    /\ StoreFrame

\* category_db.assign_category(transaction_id, category_id), with the id of
\* a stored category
CallAssignCategory ==
    /\ pc = "call"
    /\ \E t \in StoreTransactionIds, c \in 1..Len(engine.store.categories),
          fails \in BOOLEAN :
        \E done \in {assign_category(engine.store, t, c, fails)} :
            engine' = [op |-> "assign_category", arg |-> <<t, c>>,
                       fault |-> [save |-> 0, at |-> IF fails THEN 1 ELSE 0],
                       before |-> engine.store, store |-> done.store,
                       outcome |-> done.outcome, id |-> None,
                       result |-> <<>>, calls |-> engine.calls + 1]
    /\ pc' = IF engine.calls + 1 >= MaxStoreCalls THEN "returned" ELSE "call"
    /\ StoreFrame

NextStore ==
    \/ CallSaveCategory
    \/ CallInitializeDefaultCategories
    \/ CallGetAllCategories
    \/ CallGetCategoryByName
    \/ CallAssignCategory

SpecStore == InitStore /\ [][NextStore]_vars

\* the rules stored for the category row id, as (pattern, priority) pairs in
\* the order of their rows
stored_rules(store, id) ==
    LET RECURSIVE from(_)
        from(i) ==
            IF i > Len(store.rules) THEN <<>>
            ELSE (IF store.rules[i].category_id = id
                  THEN << <<store.rules[i].pattern, store.rules[i].priority>> >>
                  ELSE <<>>) \o from(i + 1)
    IN  from(1)

\* the rules of a category as (pattern, priority) pairs
rule_pairs(category) ==
    [i \in 1..Len(category.rules) |->
        <<category.rules[i].pattern, category.rules[i].priority>>]

\* the store holds every default category with its rules
holds_defaults(store) ==
    \A i \in 1..Len(Category_default_categories) :
        \E j \in 1..Len(store.categories) :
            /\ store.categories[j].name = Category_default_categories[i].name
            /\ stored_rules(store, store.categories[j].id) =
                   rule_pairs(Category_default_categories[i])

\* C28: initialize_default_categories is idempotent: on a store that holds
\* the defaults it succeeds and leaves the store as it was, and a second
\* call leaves the store the first call left (stated for the calls in which
\* no statement fails for an outside reason)
C28_InitializeDefaultsIdempotent ==
    (engine.op = "initialize_default_categories" /\ engine.fault = NoFault) =>
        /\ holds_defaults(engine.before) =>
               (engine.outcome = "Ok" /\ engine.store = engine.before)
        /\ initialize_default_categories(engine.store, NoFault).store = engine.store

\* C29: save_category is atomic and keeps names unique: after it returns Ok
\* the store holds the rows it had, the new category and all of its rules;
\* after it returns an error the store is the one before the call; a stored
\* name is refused with an error; no two stored categories share a name
C29_SaveCategoryAtomic ==
    /\ \A i, j \in 1..Len(engine.store.categories) :
           engine.store.categories[i].name = engine.store.categories[j].name => i = j
    /\ engine.op = "save_category" =>
        LET before == engine.before
            after == engine.store
            new_id == Len(before.categories) + 1
        IN  /\ \/ /\ engine.outcome = "Ok"
                  /\ engine.id = Some(new_id)
                  /\ after.categories =
                         Append(before.categories, [id |-> new_id, name |-> engine.arg.name])
                  /\ stored_rules(after, new_id) = rule_pairs(engine.arg)
                  /\ SubSeq(after.rules, 1, Len(before.rules)) = before.rules
                  /\ Len(after.rules) = Len(before.rules) + Len(engine.arg.rules)
               \/ /\ engine.outcome = "Err"
                  /\ after = before
            /\ name_stored(before, engine.arg.name) => engine.outcome = "Err"

\* the insert of the second rule of a category failed after the category
\* and its first rule had been inserted into a store that holds rows, and
\* the store is the one before the call
C29_Witness ==
    /\ engine.op = "save_category"
    /\ Len(engine.arg.rules) = 2
    /\ engine.fault.at = 4
    /\ ~name_stored(engine.before, engine.arg.name)
    /\ engine.before # EmptyStore
    /\ engine.outcome = "Err"
    /\ engine.store = engine.before

\* the pairs of s as a multiset
pair_bag(s) ==
    [x \in {s[i] : i \in 1..Len(s)} |-> count(s, x)]

\* the category a query returns is the stored category c: its name, its
\* rules (pattern, priority), and every rule naming it as owner
returned_as_stored(category, store, c) ==
    /\ category.name = c.name
    /\ pair_bag(rule_pairs(category)) = pair_bag(stored_rules(store, c.id))
    /\ \A i \in 1..Len(category.rules) : category.rules[i].category = c.name

C39_OneAssignmentPerTransaction ==
    \A i, j \in 1..Len(engine.store.assignments) :
        engine.store.assignments[i].transaction_id = engine.store.assignments[j].transaction_id
            => i = j

-----------------------------------------------------------------------------
(* main of the binary: the argument, the terminal set-up, App::new, run_app
   and the restore.  engine holds the command line, the file behind the
   path, the state of the terminal and what main returned; pc is the
   statement main is at. *)

\* the files behind the path argument: the export files of at most one
\* record, and None for a path that cannot be opened
MainFiles ==
    {Some(f) : f \in {g \in ImportFiles : g.width = ExportColumns /\ Len(g.rows) <= 1}}
        \cup {None}

InitMain ==
    \E has_path \in BOOLEAN, file \in MainFiles :
        /\ build = "bin"
        /\ pc = "main"
        /\ engine = [op |-> "main", has_path |-> has_path, file |-> file,
                     raw_mode |-> FALSE, alternate_screen |-> FALSE,
                     touched |-> FALSE, entered |-> FALSE, io_error |-> FALSE,
                     app_new |-> None, res |-> None, outcome |-> None]
        /\ transactions = <<>>
        /\ filtered_transactions = <<>>
        /\ current_view = "TransactionList"
        /\ selected_transaction = None
        /\ category_totals = EmptyMap
        /\ list_state = None
        /\ sort_field = "Date"
        /\ sort_order = "Descending"
        /\ input_mode = "Normal"
        /\ input_text = <<>>
        /\ filter = None
        /\ category_selection = None

\* main goes on to statement `to` with the terminal and the results in e
MainStep(to, e) ==
    /\ pc' = to
    /\ engine' = e
    /\ StoreFrame

\* `?` on an io::Result of a terminal call: main returns the error
MainIoError ==
    MainStep("returned", [engine EXCEPT !.io_error = TRUE, !.outcome = Some("Err")])

\* let csv_path = args.get(1).ok_or_else(..)?
MainArgs ==
    /\ pc = "main"
    /\ IF engine.has_path THEN MainStep("enable_raw_mode", engine)
       ELSE MainStep("returned", [engine EXCEPT !.outcome = Some("Err")])

\* enable_raw_mode()?
MainEnableRawMode ==
    /\ pc = "enable_raw_mode"
    /\ \/ MainStep("enter_alternate_screen",
                   [engine EXCEPT !.raw_mode = TRUE, !.touched = TRUE])
       \/ MainIoError

\* execute!(stdout, EnterAlternateScreen, EnableMouseCapture)?
MainEnterAlternateScreen ==
    /\ pc = "enter_alternate_screen"
    /\ \/ MainStep("terminal_new",
                   [engine EXCEPT !.alternate_screen = TRUE, !.entered = TRUE])
       \/ MainIoError

\* let mut terminal = Terminal::new(backend)?
MainTerminalNew ==
    /\ pc = "terminal_new"
    /\ \/ MainStep("app_new", engine)
       \/ MainIoError

\* let app = App::new(csv_path)?: the error of the import returns from main
MainAppNew ==
    /\ pc = "app_new"
    /\ IF /\ is_some(engine.file)
          /\ read_transactions_from_csv("bin", unwrap(engine.file)).outcome = "Ok"
       THEN \E order \in HashOrders :
               /\ pc' = "run_app"
               /\ engine' = [engine EXCEPT !.app_new = Some("Ok")]
               /\ Assigns(App_new("bin", unwrap(engine.file).rows, order))
       ELSE MainStep("returned",
                     [engine EXCEPT !.app_new = Some("Err"), !.outcome = Some("Err")])

\* let res = run_app(&mut terminal, app): the event loop as one step that
\* returns Ok (the quit key) or the io::Error of a draw or of an event read
MainRunApp ==
    /\ pc = "run_app"
    /\ \E res \in {"Ok", "Err"} :
        MainStep("disable_raw_mode", [engine EXCEPT !.res = Some(res)])

\* disable_raw_mode()?
MainDisableRawMode ==
    /\ pc = "disable_raw_mode"
    /\ \/ MainStep("leave_alternate_screen", [engine EXCEPT !.raw_mode = FALSE])
       \/ MainIoError

\* execute!(terminal.backend_mut(), LeaveAlternateScreen, DisableMouseCapture)?
MainLeaveAlternateScreen ==
    /\ pc = "leave_alternate_screen"
    /\ \/ MainStep("show_cursor", [engine EXCEPT !.alternate_screen = FALSE])
       \/ MainIoError

\* terminal.show_cursor()?, the error of run_app is printed, Ok(())
MainShowCursor ==
    /\ pc = "show_cursor"
    /\ \/ MainStep("returned", [engine EXCEPT !.outcome = Some("Ok")])
       \/ MainIoError

NextMain ==
    \/ MainArgs
    \/ MainEnableRawMode
    \/ MainEnterAlternateScreen
    \/ MainTerminalNew
    \/ MainAppNew
    \/ MainRunApp
    \/ MainDisableRawMode
    \/ MainLeaveAlternateScreen
    \/ MainShowCursor

SpecMain == InitMain /\ [][NextMain]_vars

\* C38: when main has returned after the terminal was put into raw mode and
\* the alternate screen, the terminal is restored, also when App::new failed
\* or run_app returned an error, and without a file argument main fails
\* with the terminal untouched (stated for the runs in which no terminal
\* call fails)
C38_TerminalRestored ==
    (pc = "returned" /\ ~engine.io_error) =>
        /\ engine.entered => (~engine.raw_mode /\ ~engine.alternate_screen)
        /\ ~engine.has_path => (engine.outcome = Some("Err") /\ ~engine.touched)

-----------------------------------------------------------------------------
(* the key dispatch while a prompt is open *)

\* C33: while input_mode is Filtering or Categorizing, a key event that is
\* neither Enter nor Esc leaves run_app running and changes neither the view,
\* the sort field and order, the two cursor fields, the stored filter, the
\* visible index sequence, the transactions nor the sub-state itself: only
\* the buffer (and the highlight of the enumerated list) may change
C33_PromptKeysOnlyEditBuffer ==
    [][(input_mode \in {"Filtering", "Categorizing"}) =>
          \/ KeyEnter
          \/ KeyEscInput
          \/ /\ pc' = pc
             /\ UNCHANGED <<current_view, sort_field, sort_order, list_state,
                            selected_transaction, filter, filtered_transactions,
                            transactions, category_totals, input_mode>>]_vars

\* a prompt is open on a sorted, filtered, non-empty list and a character
\* has been typed into the buffer
C33_Witness ==
    /\ pc = "run_app"
    /\ input_mode \in {"Filtering", "Categorizing"}
    /\ input_text # <<>>
    /\ is_some(filter)
    /\ sort_order = "Ascending"
    /\ is_some(selected_transaction)

-----------------------------------------------------------------------------
(* the order of ties after a sort *)

\* positions i < j of the displayed sequence s hold two different
\* transactions with equal values in the sort field
tied(s, i, j, field) ==
    /\ i < j
    /\ s[i] # s[j]
    /\ field_order(s[i], s[j], field) = Equal

\* C32: after sort_transactions or toggle_sort_order, in either order, two
\* displayed transactions (the visible indices when a filter matched, the
\* collection otherwise) with equal values in the sort field are in the
\* relative order they had before the call
C32_SortIsStable ==
    Sorted =>
        LET before == displayed(engine.before)
            after == displayed(App)
        IN  \A i, j \in 1..Len(before) :
                tied(before, i, j, sort_field) =>
                    \E k, l \in 1..Len(after) :
                        k < l /\ after[k] = before[i] /\ after[l] = before[j]

\* a descending sort has moved a row past two rows with equal values in the
\* sort field, which are still in their order
C32_Witness ==
    /\ Sorted
    /\ sort_order = "Descending"
    /\ displayed(App) # displayed(engine.before)
    /\ \E i, j \in 1..Len(displayed(engine.before)) :
           tied(displayed(engine.before), i, j, sort_field)

-----------------------------------------------------------------------------
(* run_app on the empty file and on the files of two records *)

InitIndices == Init /\ Len(transactions) \in {0, 2}

SpecIndices == InitIndices /\ [][Next]_vars

\* C37: in every state of run_app the visible index sequence holds only
\* indices smaller than the length of the collection, and none twice, also
\* when the collection is empty
C37_VisibleIndicesInBounds ==
    /\ \A k \in 1..Len(filtered_transactions) :
           /\ filtered_transactions[k] >= 0
           /\ filtered_transactions[k] < Len(transactions)
    /\ \A k, l \in 1..Len(filtered_transactions) :
           (filtered_transactions[k] = filtered_transactions[l]) => (k = l)

\* a filter matched both transactions, a sort has put the second one first,
\* and a category was entered for a transaction afterwards
C37_Witness ==
    /\ pc = "run_app"
    /\ input_mode = "Normal"
    /\ filtered_transactions = <<1, 0>>
    /\ \E i \in 1..Len(transactions) :
           is_some(transactions[i].category) /\ transactions[i].merchant = <<"T","a","x","i">>

-----------------------------------------------------------------------------
(* categorize_all_transactions called on the App that App::new returns, and
   on that App after a category was entered by hand for one transaction *)

\* the App values after at most one submit in Categorizing mode on row i,
\* with the buffer or the highlight the copy reads the name from
Recategorized(b, new) ==
    {new} \cup
    {submit_input(b, [new EXCEPT !.selected_transaction = Some(i),
                                 !.input_mode = "Categorizing",
                                 !.input_text = text,
                                 !.category_selection = hl]) :
        i \in 0..(Len(new.transactions) - 1), text \in FilterTexts, hl \in CallHighlights(b)}

InitPass ==
    \E b \in {"bin", "lib"}, rows \in Files :
        \E a \in Recategorized(b, App_new(b, rows, table_order)) :
            /\ build = b
            /\ pc = "call"
            /\ engine = NoCall
            /\ transactions = a.transactions
            /\ filtered_transactions = a.filtered_transactions
            /\ current_view = a.current_view
            /\ selected_transaction = a.selected_transaction
            /\ category_totals = a.category_totals
            /\ list_state = a.list_state
            /\ sort_field = a.sort_field
            /\ sort_order = a.sort_order
            /\ input_mode = a.input_mode
            /\ input_text = a.input_text
            /\ filter = a.filter
            /\ category_selection = a.category_selection

\* app.categorize_all_transactions(), the first or the second pass of the
\* run; the category HashMap is iterated in some order
CallCategorizeAll ==
    /\ pc = "call"
    /\ pc' = IF engine = NoCall THEN "call" ELSE "returned"
    /\ \E order \in HashOrders :
           Called("categorize_all_transactions", order,
                  categorize_all_transactions(build, App, order))

NextPass == CallCategorizeAll

SpecPass == InitPass /\ [][NextPass]_vars

-----------------------------------------------------------------------------
(* the two cursor fields *)

\* C35: in every state of run_app, starting with the one App::new returns,
\* list_state.selected() (the highlighted row) equals selected_transaction
\* (the row the detail view and the categorize commands act on)
C35_CursorFieldsAgree ==
    InLoop => (list_state = selected_transaction)

-----------------------------------------------------------------------------
(* the visible index sequence and the stored filter *)

\* C36: in every state of run_app in which a filter is stored, the visible
\* index sequence holds exactly the indices of the transactions whose
\* merchant, description or category contains the stored filter text, also
\* after a category was entered while the filter is stored
C36_VisibleIndicesMatchFilter ==
    (InLoop /\ is_some(filter)) =>
        elements(filtered_transactions) =
            {i - 1 : i \in {j \in 1..Len(transactions) :
                               matches_filter(transactions[j], unwrap(filter))}}

-----------------------------------------------------------------------------
(* the displayed order and the recorded sort settings *)

\* C40: in every state of run_app, starting with the one App::new returns,
\* the displayed sequence is non-decreasing in sort_field when sort_order is
\* Ascending and non-increasing when it is Descending
C40_DisplayedOrderFollowsSettings ==
    InLoop =>
        \A i \in 1..(Len(displayed(App)) - 1) :
            field_order(displayed(App)[i], displayed(App)[i + 1], sort_field) #
                (IF sort_order = "Ascending" THEN Greater ELSE Less)

====
